---------------------------- MODULE Spec2Model ----------------------------
(***************************************************************************)
(* A model of the WoodWOP MPR post processor (src/woodwop_post.py).        *)
(*                                                                         *)
(* Numbers.  The program computes in binary floating point.  The model     *)
(* computes in fixed point:                                                *)
(*   - lengths and coordinates are integers counting 1/3000 mm, so that    *)
(*     the program's tolerance 0.001 mm is TOL = 3 units and a move        *)
(*     smaller than the tolerance can be non-zero;                         *)
(*   - angles are integers counting micro-radians, PI = 3141592;           *)
(*   - sines and cosines are fractions of ONE = 2^14.                      *)
(* Every division rounds to the nearest integer (RoundDiv).                *)
(***************************************************************************)
EXTENDS Integers, Sequences, FiniteSets, TLC

(***************************************************************************)
(* Units and bounds                                                        *)
(***************************************************************************)
\* 0.001 mm, the tolerance literal of the program, in length units.
TOL == 3
\* One millimetre in length units.
MM == 1000 * TOL
\* math.pi in micro-radians (rounded down to a multiple of 8).
PI == 3141592
TWO_PI == 2 * PI
HALF_PI == PI \div 2
QUARTER_PI == PI \div 4
\* One radian in angle units.
RAD == 10^6
\* The denominator of the fixed-point fractions of the trigonometry.
ONE == 2^14
\* ONE / RAD in lowest terms.
QNUM == 2^8
QDEN == 5^6

\* The largest number of commands one normalizer run of SpecNorm walks.
MaxCmds == 4

(***************************************************************************)
(* Arithmetic                                                              *)
(***************************************************************************)
Abs(a) == IF a < 0 THEN -a ELSE a

Max2(a, b) == IF a >= b THEN a ELSE b

Min2(a, b) == IF a <= b THEN a ELSE b

\* a / b for b > 0, rounded to the nearest integer.
RoundDiv(a, b) == (a + (b \div 2)) \div b

RECURSIVE SqrtIter(_, _, _)
\* lo * lo <= n < hi * hi
SqrtIter(n, lo, hi) ==
    IF hi - lo <= 1 THEN lo
    ELSE LET mid == (lo + hi) \div 2
         IN  IF mid * mid <= n THEN SqrtIter(n, mid, hi) ELSE SqrtIter(n, lo, mid)

\* math.sqrt, rounded to the nearest length unit.
Sqrt(n) ==
    LET s == SqrtIter(n, 0, 46341)
    IN  IF n - s * s > s THEN s + 1 ELSE s

\* sin and cos of an angle in [0, pi/4], by their Taylor series, as
\* fractions of ONE.
SinSmall(a) ==
    LET xq == RoundDiv(a * QNUM, QDEN)
        x2 == RoundDiv(xq * xq, ONE)
        t3 == ONE - RoundDiv(x2, 42)
        t2 == ONE - RoundDiv(x2 * t3, 20 * ONE)
        t1 == ONE - RoundDiv(x2 * t2, 6 * ONE)
    IN  RoundDiv(xq * t1, ONE)

CosSmall(a) ==
    LET xq == RoundDiv(a * QNUM, QDEN)
        x2 == RoundDiv(xq * xq, ONE)
        t4 == ONE - RoundDiv(x2, 56)
        t3 == ONE - RoundDiv(x2 * t4, 30 * ONE)
        t2 == ONE - RoundDiv(x2 * t3, 12 * ONE)
    IN  ONE - RoundDiv(x2 * t2, 2 * ONE)

\* sin and cos of an angle in [0, pi/2].
SinQ1(a) == IF a <= QUARTER_PI THEN SinSmall(a) ELSE CosSmall(HALF_PI - a)

CosQ1(a) == IF a <= QUARTER_PI THEN CosSmall(a) ELSE SinSmall(HALF_PI - a)

\* math.sin and math.cos of any angle, as fractions of ONE.
Sin(a) ==
    LET m == a % TWO_PI
        q == m \div HALF_PI
        r == m % HALF_PI
    IN  CASE q = 0 -> SinQ1(r)
          [] q = 1 -> CosQ1(r)
          [] q = 2 -> -SinQ1(r)
          [] OTHER -> -CosQ1(r)

Cos(a) ==
    LET m == a % TWO_PI
        q == m \div HALF_PI
        r == m % HALF_PI
    IN  CASE q = 0 -> CosQ1(r)
          [] q = 1 -> -SinQ1(r)
          [] q = 2 -> -CosQ1(r)
          [] OTHER -> SinQ1(r)

\* atan(u), 0 <= u <= tan(pi/8), u a fraction of ONE, by its Taylor series.
AtanSmall(uq) ==
    LET u2 == RoundDiv(uq * uq, ONE)
        p4 == RoundDiv(ONE, 7) - RoundDiv(u2 * RoundDiv(ONE, 9), ONE)
        p3 == RoundDiv(ONE, 5) - RoundDiv(u2 * p4, ONE)
        p2 == RoundDiv(ONE, 3) - RoundDiv(u2 * p3, ONE)
        p1 == ONE - RoundDiv(u2 * p2, ONE)
    IN  RoundDiv(RoundDiv(uq * p1, ONE) * QDEN, QNUM)

\* The angle of (x, y) for 0 <= y <= x, 0 < x: in [0, pi/4].
AtanOctant(y, x) ==
    IF y = 0 THEN 0
    ELSE IF 5 * y <= 2 * x
         THEN AtanSmall(RoundDiv(y * ONE, x))
         ELSE QUARTER_PI - AtanSmall(RoundDiv((x - y) * ONE, x + y))

\* The angle of (x, y) for x, y >= 0, not both 0: in [0, pi/2].
AtanQ1(y, x) == IF y <= x THEN AtanOctant(y, x) ELSE HALF_PI - AtanOctant(x, y)

\* The angle of (x, y) from al, the angle of (|x|, |y|).
AtanQuadrant(al, y, x) ==
    CASE x >= 0 /\ y >= 0 -> al
      [] x < 0 /\ y >= 0 -> PI - al
      [] x < 0 /\ y < 0 -> al - PI
      [] OTHER -> -al

\* math.atan2(y, x): in (-pi, pi], and 0 for (0, 0).
Atan2(y, x) ==
    IF x = 0 /\ y = 0 THEN 0
    ELSE AtanQuadrant(AtanQ1(Abs(y), Abs(x)), y, x)

(***************************************************************************)
(* Motion commands: a name and a dictionary of parameters.  A dictionary   *)
(* is a set of <<letter, value>> pairs with one pair a letter at most.     *)
(***************************************************************************)
Cmd(name, params) == [Name |-> name, Parameters |-> params]

Has(params, key) == \E e \in params : e[1] = key

\* params.get(key, default)
Get(params, key, default) ==
    IF Has(params, key) THEN (CHOOSE e \in params : e[1] = key)[2] ELSE default

MoveNames == {"G0", "G00", "G1", "G01", "G2", "G02", "G3", "G03"}
RapidNames == {"G0", "G00"}
LinearNames == {"G1", "G01"}
ArcNames == {"G2", "G02", "G3", "G03"}
CWNames == {"G2", "G02"}
DrillNames == {"G81", "G82", "G83"}

(***************************************************************************)
(* extract_contour_from_path: the command normalizer                       *)
(***************************************************************************)
\* The locals of the loop: start is <<>> while start_x is None.
NormState0 ==
    [elements |-> <<>>, current_x |-> 0, current_y |-> 0, current_z |-> 0,
     start |-> <<>>]

LineElem(x, y, z, move_type) ==
    [type |-> "KL", x |-> x, y |-> y, z |-> z, move_type |-> move_type]

\* A normalization that takes equal angles for a full turn.
NormalizeEndInclusive(direction, start_angle, end_angle) == IF direction = "CCW" /\ end_angle <= start_angle THEN end_angle + TWO_PI ELSE IF direction = "CW" /\ end_angle >= start_angle THEN end_angle - TWO_PI ELSE end_angle

\* The end angle, normalized for the direction.
NormalizeEnd(direction, start_angle, end_angle) ==
    IF direction = "CCW" /\ end_angle < start_angle THEN end_angle + TWO_PI
    ELSE IF direction = "CW" /\ end_angle > start_angle THEN end_angle - TWO_PI
    ELSE end_angle

\* A number of segments rounded to the nearest integer.
NumSegmentsRounded(start_angle, end_angle) == Max2(8, RoundDiv(Abs(end_angle - start_angle) * 36, PI))

\* int(abs(end_angle - start_angle) * 180 / math.pi / 5), at least 8
NumSegments(start_angle, end_angle) ==
    Max2(8, (Abs(end_angle - start_angle) * 36) \div PI)

\* math.sqrt(i*i + j*j) if (i != 0 or j != 0) else 0
ArcRadius(i, j) == IF i # 0 \/ j # 0 THEN Sqrt(i * i + j * j) ELSE 0

\* The point of the circle at an angle.
OnCircle(center_x, center_y, radius, angle) ==
    <<center_x + RoundDiv(radius * Cos(angle), ONE),
      center_y + RoundDiv(radius * Sin(angle), ONE)>>

\* The segments of an arc from start_angle to end_angle.
SegmentsBetween(st, z, center_x, center_y, radius, start_angle, end_angle) ==
    [seg \in 1..NumSegments(start_angle, end_angle) |->
        LineElem(
            OnCircle(center_x, center_y, radius,
                     start_angle + RoundDiv((end_angle - start_angle) * seg,
                                            NumSegments(start_angle, end_angle)))[1],
            OnCircle(center_x, center_y, radius,
                     start_angle + RoundDiv((end_angle - start_angle) * seg,
                                            NumSegments(start_angle, end_angle)))[2],
            st.current_z + RoundDiv((z - st.current_z) * seg,
                                    NumSegments(start_angle, end_angle)),
            "")]

\* The segments of an arc that starts at start_angle and ends at the raw
\* angle end_angle.
SegmentsFrom(st, z, center_x, center_y, radius, direction, start_angle, end_angle) ==
    SegmentsBetween(st, z, center_x, center_y, radius, start_angle,
                    NormalizeEnd(direction, start_angle, end_angle))

\* An arc whose Z changes, as line segments.  The start angle is that of
\* the cursor seen from the center, the cursor minus the center being
\* (-i, -j).
ArcSegments(st, x, y, z, i, j, direction) ==
    SegmentsFrom(st, z, st.current_x + i, st.current_y + j, ArcRadius(i, j),
                 direction, Atan2(-j, -i),
                 Atan2(y - (st.current_y + j), x - (st.current_x + i)))

\* The arc element, given the point of the arc at its middle angle.
ArcElemThrough(x, y, z, i, j, direction, mid) ==
    [type |-> "KA", x |-> x, y |-> y, i |-> i, j |-> j,
     x2 |-> mid[1], y2 |-> mid[2],
     r |-> ArcRadius(i, j), direction |-> direction, z |-> z]

\* (start_angle + end_angle) / 2, end_angle normalized for the direction
MidAngle(direction, start_angle, end_angle) ==
    RoundDiv(start_angle + NormalizeEnd(direction, start_angle, end_angle), 2)

\* An arc in the XY plane.
ArcElem(st, x, y, z, i, j, direction) ==
    ArcElemThrough(x, y, z, i, j, direction,
        OnCircle(st.current_x + i, st.current_y + j, ArcRadius(i, j),
                 MidAngle(direction, Atan2(-j, -i),
                          Atan2(y - (st.current_y + j), x - (st.current_x + i)))))

\* A test that sees only a rising Z.
ZRises(st, z) == z - st.current_z > TOL

\* abs(z - current_z) > 0.001
ZChanges(st, z) == Abs(z - st.current_z) > TOL

\* A movement of more than the tolerance on an axis.
MovementBeyondTolerance(st, x, y, z) == Abs(x - st.current_x) > TOL \/ Abs(y - st.current_y) > TOL \/ Abs(z - st.current_z) > TOL

\* not (dx < 0.001 and dy < 0.001 and dz < 0.001)
ActualMovement(st, x, y, z) ==
    ~(/\ Abs(x - st.current_x) < TOL
      /\ Abs(y - st.current_y) < TOL
      /\ Abs(z - st.current_z) < TOL)

\* The elements one command appends.
NewElements(st, cmd, x, y, z) ==
    LET i == Get(cmd.Parameters, "I", 0)
        j == Get(cmd.Parameters, "J", 0)
        direction == IF cmd.Name \in CWNames THEN "CW" ELSE "CCW"
    IN  CASE cmd.Name \in RapidNames ->
               IF ActualMovement(st, x, y, z)
               THEN <<LineElem(x, y, z, "G0")>> ELSE <<>>
          [] cmd.Name \in LinearNames ->
               IF ActualMovement(st, x, y, z)
               THEN <<LineElem(x, y, z, "G1")>> ELSE <<>>
          [] cmd.Name \in ArcNames ->
               IF ZChanges(st, z)
               THEN ArcSegments(st, x, y, z, i, j, direction)
               ELSE <<ArcElem(st, x, y, z, i, j, direction)>>
          [] OTHER -> <<>>

\* A cursor that follows only the commands that append an element.
NextCursorIfEmitted(st, cmd, x, y, z) ==
    IF NewElements(st, cmd, x, y, z) # <<>> THEN <<x, y, z>>
    ELSE <<st.current_x, st.current_y, st.current_z>>

\* The cursor after a command.
NextCursor(st, cmd, x, y, z) == <<x, y, z>>

\* One pass of the loop over path_commands.
ProcessCommand(st, cmd) ==
    LET x == Get(cmd.Parameters, "X", st.current_x)
        y == Get(cmd.Parameters, "Y", st.current_y)
        z == Get(cmd.Parameters, "Z", st.current_z)
        cur == NextCursor(st, cmd, x, y, z)
    IN  [elements |-> st.elements \o NewElements(st, cmd, x, y, z),
         current_x |-> cur[1], current_y |-> cur[2], current_z |-> cur[3],
         start |-> IF st.start = <<>> /\ cmd.Name \in MoveNames
                   THEN <<st.current_x, st.current_y, st.current_z>>
                   ELSE st.start]

RECURSIVE WalkCommands(_, _)
WalkCommands(st, cmds) ==
    IF cmds = <<>> THEN st
    ELSE WalkCommands(ProcessCommand(st, Head(cmds)), Tail(cmds))

\* A start position that is the origin whatever the cursor was.
StartPosOrigin(st) == <<0, 0, 0>>

\* start_x if start_x is not None else 0.0, and so on
StartPos(st) == IF st.start = <<>> THEN <<0, 0, 0>> ELSE st.start

\* return elements, start_pos
Extracted(st) == <<st.elements, StartPos(st)>>

\* extract_contour_from_path(obj): (elements, start_pos)
extract_contour_from_path(commands) ==
    IF commands = <<>> THEN <<<<>>, <<0, 0, 0>>>>
    ELSE Extracted(WalkCommands(NormState0, commands))

(***************************************************************************)
(* Path objects.  An object of objectslist is a record:                    *)
(*   Label, hasPath (whether it has a Path attribute), ProxyType (<<>>, or *)
(*   <<the set of the words profile, contour, drill, pocket its lowered    *)
(*   Proxy.Type contains>>), ToolController ({} or {ToolNumber}) and       *)
(*   Commands (PathUtils.getPathWithPlacement(obj).Commands).              *)
(***************************************************************************)
\* int(cmd.Name[1:]) of a command whose name starts with T: <<>> when the
\* name is no T word or the conversion raises.
ToolOfName(name) ==
    CASE name = "T1" -> <<1>>
      [] name = "T7" -> <<7>>
      [] OTHER -> <<>>

RECURSIVE FirstToolCommand(_)
FirstToolCommand(cmds) ==
    IF cmds = <<>> THEN <<>>
    ELSE IF ToolOfName(Head(cmds).Name) # <<>> THEN ToolOfName(Head(cmds).Name)
    ELSE FirstToolCommand(Tail(cmds))

get_tool_number(obj) ==
    IF obj.ToolController # {} THEN CHOOSE n \in obj.ToolController : TRUE
    ELSE IF obj.hasPath /\ FirstToolCommand(obj.Commands) # <<>>
    THEN FirstToolCommand(obj.Commands)[1]
    ELSE 101

HasCommandIn(cmds, names) == \E k \in 1..Len(cmds) : cmds[k].Name \in names

\* A classifier that looks for arcs before drill cycles.
ArcsBeforeDrilling(obj) == LET words == IF obj.ProxyType = <<>> THEN {} ELSE obj.ProxyType[1] IN IF "profile" \in words \/ "contour" \in words THEN "profile" ELSE IF "drill" \in words THEN "drilling" ELSE IF "pocket" \in words THEN "pocket" ELSE IF obj.hasPath /\ HasCommandIn(obj.Commands, ArcNames) THEN "profile" ELSE IF obj.hasPath /\ HasCommandIn(obj.Commands, DrillNames) THEN "drilling" ELSE "contour"

get_operation_type(obj) ==
    LET words == IF obj.ProxyType = <<>> THEN {} ELSE obj.ProxyType[1]
    IN  IF "profile" \in words \/ "contour" \in words THEN "profile"
        ELSE IF "drill" \in words THEN "drilling"
        ELSE IF "pocket" \in words THEN "pocket"
        ELSE IF obj.hasPath /\ HasCommandIn(obj.Commands, DrillNames) THEN "drilling"
        ELSE IF obj.hasPath /\ HasCommandIn(obj.Commands, ArcNames) THEN "profile"
        ELSE "contour"

\* The loop of extract_drilling_operations: the drill positions and the
\* cursor.
DrillState0 == [positions |-> <<>>, current_x |-> 0, current_y |-> 0, current_z |-> 0]

DrillCommand(st, cmd) ==
    LET p == cmd.Parameters IN
    IF cmd.Name \in DrillNames
    THEN LET x == Get(p, "X", st.current_x)
             y == Get(p, "Y", st.current_y)
             z == Get(p, "Z", st.current_z)
             r == Get(p, "R", 0)
             drill_depth == IF r # 0 THEN Abs(z - r) ELSE Abs(z)
         IN  [st EXCEPT !.positions = Append(@, [x |-> x, y |-> y, depth |-> drill_depth]),
                        !.current_x = x, !.current_y = y]
    ELSE IF cmd.Name \in RapidNames \cup LinearNames
    THEN [st EXCEPT !.current_x = Get(p, "X", @),
                    !.current_y = Get(p, "Y", @),
                    !.current_z = Get(p, "Z", @)]
    ELSE st

RECURSIVE WalkDrill(_, _)
WalkDrill(st, cmds) ==
    IF cmds = <<>> THEN st
    ELSE WalkDrill(DrillCommand(st, Head(cmds)), Tail(cmds))

extract_drilling_operations(obj) ==
    IF ~obj.hasPath \/ obj.Commands = <<>> THEN <<>>
    ELSE LET pos == WalkDrill(DrillState0, obj.Commands).positions
         IN  [k \in 1..Len(pos) |->
                [type |-> "BohrVert", id |-> 102, xa |-> pos[k].x, ya |-> pos[k].y,
                 depth |-> pos[k].depth, tool |-> get_tool_number(obj)]]

create_contour_milling(obj, contour_id, tool_number) ==
    [type |-> "Contourfraesen", id |-> 105, contour |-> contour_id,
     tool |-> tool_number, label |-> obj.Label]

create_pocket_milling(obj, contour_id, tool_number) ==
    [type |-> "Pocket", id |-> 107, contour |-> contour_id,
     tool |-> tool_number, label |-> obj.Label]

\* The tracking globals process_path_object reads and writes, as a record.
Tracking(cc, cs, os, ts) ==
    [contour_counter |-> cc, contours |-> cs, operations |-> os, tools_used |-> ts]

\* A branch that appends the operation whether or not there are elements.
OperationWithoutContour(t, obj, milling, ex) == Tracking(t.contour_counter + 1, IF ex[1] # <<>> THEN Append(t.contours, [id |-> t.contour_counter, elements |-> ex[1], start_pos |-> ex[2], label |-> obj.Label]) ELSE t.contours, Append(t.operations, milling), t.tools_used)

\* The profile/contour and the pocket branch of process_path_object, ex
\* being what extract_contour_from_path returned.
AddContour(t, obj, milling, ex) ==
    IF ex[1] # <<>>
    THEN Tracking(t.contour_counter + 1,
                  Append(t.contours,
                         [id |-> t.contour_counter, elements |-> ex[1],
                          start_pos |-> ex[2], label |-> obj.Label]),
                  Append(t.operations, milling),
                  IF get_tool_number(obj) # 0
                  THEN t.tools_used \cup {get_tool_number(obj)}
                  ELSE t.tools_used)
    ELSE [t EXCEPT !.contour_counter = @ + 1]

ProcessMilling(t, obj, milling) ==
    AddContour(t, obj, milling,
               IF obj.hasPath THEN extract_contour_from_path(obj.Commands)
               ELSE <<<<>>, <<0, 0, 0>>>>)

process_path_object(t, obj) ==
    LET op_type == get_operation_type(obj)
        tool_number == get_tool_number(obj)
    IN  CASE op_type \in {"profile", "contour"} ->
               ProcessMilling(t, obj,
                   create_contour_milling(obj, t.contour_counter, tool_number))
          [] op_type = "drilling" ->
               [t EXCEPT !.operations = @ \o extract_drilling_operations(obj),
                         !.tools_used = IF tool_number # 0 THEN @ \cup {tool_number}
                                        ELSE @]
          [] OTHER ->
               ProcessMilling(t, obj,
                   create_pocket_milling(obj, t.contour_counter, tool_number))

(***************************************************************************)
(* calculate_part_minimum: the minimum-point locator                       *)
(***************************************************************************)
\* if min is None or v < min: min = v, on all three axes; m is <<>> for None.
Lower(m, x, y, z) ==
    IF m = <<>> THEN <<x, y, z>>
    ELSE <<Min2(m[1], x), Min2(m[2], y), Min2(m[3], z)>>

\* The same on X and Y alone.
LowerXY(m, x, y) == <<Min2(m[1], x), Min2(m[2], y), m[3]>>

\* No arc has its extent folded.
HasNoExtent(radius) == FALSE

\* The arcs whose extent center - radius is folded into the minimum.
HasExtent(radius) == radius > TOL

\* One element of a contour: its end point and, for an arc, its center
\* and its extent.
MinElement(m, prev, elem) ==
    LET m1 == Lower(m, elem.x, elem.y, elem.z) IN
    IF elem.type = "KA"
    THEN LET center_x == prev[1] + elem.i
             center_y == prev[2] + elem.j
             center_z == prev[3]
             m2 == Lower(m1, center_x, center_y, center_z)
         IN  IF HasExtent(elem.r)
             THEN LowerXY(m2, center_x - elem.r, center_y - elem.r)
             ELSE m2
    ELSE m1

RECURSIVE MinElements(_, _, _)
MinElements(m, prev, elems) ==
    IF elems = <<>> THEN m
    ELSE MinElements(MinElement(m, prev, Head(elems)),
                     <<Head(elems).x, Head(elems).y, Head(elems).z>>, Tail(elems))

RECURSIVE MinContours(_, _)
MinContours(m, cs) ==
    IF cs = <<>> THEN m
    ELSE LET c == Head(cs)
             m0 == Lower(m, c.start_pos[1], c.start_pos[2], c.start_pos[3])
         IN  MinContours(MinElements(m0, c.start_pos, c.elements), Tail(cs))

\* A locator that leaves the drilling operations out.
MinWithoutOperations(m, ops) == m

RECURSIVE MinOperations(_, _)
MinOperations(m, ops) ==
    IF ops = <<>> THEN m
    ELSE MinOperations(IF Head(ops).type = "BohrVert"
                       THEN Lower(m, Head(ops).xa, Head(ops).ya, -Head(ops).depth)
                       ELSE m,
                       Tail(ops))

\* return (0.0, 0.0, 0.0) if min_x is None
MinimumOrZero(m) == IF m = <<>> THEN <<0, 0, 0>> ELSE m

calculate_part_minimum(cs, ops) ==
    MinimumOrZero(MinOperations(MinContours(<<>>, cs), ops))

(***************************************************************************)
(* fmt: a value written with PRECISION decimals.  unit is the model's      *)
(* count for 1 (MM for a length, RAD for an angle); the result is the      *)
(* nearest multiple of unit / 10^PRECISION.                                *)
(***************************************************************************)
Step(unit, precision) == unit \div (10 ^ precision)

fmt(value, unit, precision) ==
    RoundDiv(value, Step(unit, precision)) * Step(unit, precision)

(***************************************************************************)
(* generate_mpr_content: the arc geometry resolver                         *)
(***************************************************************************)
\* 0.001 rad, in angle units.
ANGLE_TOL == RAD \div 1000

\* abs(arc_angle - math.pi) < 0.001
Near180(arc_angle) == Abs(arc_angle - PI) < ANGLE_TOL

\* chord_length / 2.0 + 0.001
MinRequiredRadius(chord_length) == RoundDiv(chord_length, 2) + TOL

RECURSIVE Guard180Loop(_, _, _)
\* while chord_length - 2 * radius > 0.0001 and iteration < max_iterations
Guard180Loop(radius, chord_length, iteration) ==
    IF 10 * (chord_length - 2 * radius) > TOL /\ iteration < 10
    THEN Guard180Loop(MinRequiredRadius(chord_length), chord_length, iteration + 1)
    ELSE radius

\* A guard that raises the radius only while the chord exceeds twice it.
RaisedByLoopOnly(radius, chord_length) == Guard180Loop(radius, chord_length, 0)

\* The radius after the guard of an arc of about 180 degrees.
Guard180(radius, chord_length) ==
    LET looped == Guard180Loop(radius, chord_length, 0)
    IN  IF looped < MinRequiredRadius(chord_length)
        THEN MinRequiredRadius(chord_length) ELSE looped

\* A center taken from the offset previous point.
CenterFromOffsetPoint(prev_orig, prev, off, elem) ==
    <<prev[1] + elem.i, prev[2] + elem.j>>

\* The center the resolver reconstructs, before the offset: the original
\* previous point plus (i, j).  prev is the offset previous point, off the
\* coordinate offset.
CenterOrig(prev_orig, prev, off, elem) ==
    <<prev_orig[1] + elem.i, prev_orig[2] + elem.j>>

\* if radius <= 0.001: radius = max(chord_length / 2.0, 0.001)
FloorRadius(radius, chord_length) ==
    IF radius <= TOL THEN Max2(RoundDiv(chord_length, 2), TOL) ELSE radius

\* A resolution that takes the geometric mean of the two distances for an
\* absent radius.
GeometricResolution(elem_r, radius_from_start, radius_to_end) == IF elem_r <= TOL THEN Sqrt(radius_from_start * radius_to_end) ELSE IF Abs(elem_r - radius_from_start) > TOL \/ Abs(elem_r - radius_to_end) > TOL THEN RoundDiv(radius_from_start + radius_to_end, 2) ELSE elem_r

\* Steps 2 and 3: the declared radius, or the average of the two distances
\* when it is absent or away from one of them.
ResolvedBeforeGuard(elem_r, radius_from_start, radius_to_end) ==
    LET radius_avg == RoundDiv(radius_from_start + radius_to_end, 2)
        initial_radius == IF elem_r <= TOL THEN radius_avg ELSE elem_r
    IN  IF Abs(initial_radius - radius_from_start) > TOL
           \/ Abs(initial_radius - radius_to_end) > TOL
        THEN radius_avg ELSE initial_radius

\* The radius the resolver settles on, from the declared radius elem_r,
\* the distances of the two end points from the center, the chord and
\* the sweep.
ResolveRadius(elem_r, radius_from_start, radius_to_end, chord_length, arc_angle) ==
    LET radius3 == ResolvedBeforeGuard(elem_r, radius_from_start, radius_to_end)
        radius5 == IF Near180(arc_angle) THEN Guard180(radius3, chord_length)
                   ELSE radius3
    IN  FloorRadius(radius5, chord_length)

\* The radius written: the resolved radius, raised when real_correction
\* is negative at about 180 degrees.
EmittedRadius(radius6, chord_length, arc_angle) ==
    IF Near180(arc_angle) /\ 2 * radius6 - chord_length < 0
    THEN RoundDiv(chord_length, 2) + RoundDiv(chord_length - 2 * radius6, 2) + TOL
    ELSE radius6

\* The arc, from its angles and its resolved radius.
ResolvedArc(end, center, start_angle, end_angle, chord_length, radius6) ==
    [skip |-> radius6 < TOL,
     x |-> end[1], y |-> end[2], z |-> end[3],
     center_x |-> center[1], center_y |-> center[2],
     start_angle |-> start_angle, end_angle |-> end_angle,
     arc_angle |-> Abs(end_angle - start_angle),
     is_small_arc |-> Abs(end_angle - start_angle) <= PI,
     chord_length |-> chord_length,
     radius |-> EmittedRadius(radius6, chord_length, Abs(end_angle - start_angle))]

\* The arc, from its angles and its lengths.
MeasuredArc(elem, end, center, start_angle, end_angle, radius_from_start, radius_to_end, chord_length) ==
    ResolvedArc(end, center, start_angle, end_angle, chord_length,
        ResolveRadius(elem.r, radius_from_start, radius_to_end, chord_length,
                      Abs(end_angle - start_angle)))

\* math.sqrt((x1 - x0)**2 + (y1 - y0)**2)
Distance(p, q) ==
    Sqrt((q[1] - p[1]) * (q[1] - p[1]) + (q[2] - p[2]) * (q[2] - p[2]))

\* The arc that ends at end (offset), around center (offset), from the
\* start angle and the raw end angle.
AngledArc(elem, end, prev, center, start_angle, end_angle) ==
    MeasuredArc(elem, end, center, start_angle,
                NormalizeEnd(elem.direction, start_angle, end_angle),
                Distance(center, prev), Distance(center, end), Distance(prev, end))

CenteredArc(elem, end, prev, center) ==
    AngledArc(elem, end, prev, center,
              Atan2(prev[2] - center[2], prev[1] - center[1]),
              Atan2(end[2] - center[2], end[1] - center[1]))

\* A center that stays where it is under every offset.
CenterWithoutOffset(c, off) == c

\* center_x = center_x_orig + COORDINATE_OFFSET_X, and so on
OffsetCenter(c, off) == <<c[1] + off[1], c[2] + off[2]>>

\* Everything the serializer computes for one arc element.
ResolveArc(elem, prev, prev_orig, off) ==
    CenteredArc(elem, <<elem.x + off[1], elem.y + off[2], elem.z + off[3]>>, prev,
                OffsetCenter(CenterOrig(prev_orig, prev, off, elem), off))

\* A code whose low bit is the size and whose high bit is the direction.
DSBySize(direction, is_small_arc) == IF direction = "CW" THEN (IF is_small_arc THEN 0 ELSE 1) ELSE (IF is_small_arc THEN 2 ELSE 3)

\* ds_value
DS(direction, is_small_arc) ==
    IF direction = "CW" THEN (IF is_small_arc THEN 0 ELSE 2)
    ELSE (IF is_small_arc THEN 1 ELSE 3)

(***************************************************************************)
(* generate_mpr_content: the format serializer.  The output is a sequence  *)
(* of blocks, one record a block of lines; a field of a block is the       *)
(* number its line shows.  The globals the function reads are the fields   *)
(* of g: contours, operations, PRECISION, OUTPUT_COMMENTS,                  *)
(* COORDINATE_SYSTEM ("" for None) and off, the three COORDINATE_OFFSETs.  *)
(***************************************************************************)
WORKPIECE_LENGTH == 800 * MM
WORKPIECE_WIDTH == 600 * MM
WORKPIECE_THICKNESS == 20 * MM

Globals(cs, ops, precision, comments, system, off) ==
    [contours |-> cs, operations |-> ops, PRECISION |-> precision,
     OUTPUT_COMMENTS |-> comments, COORDINATE_SYSTEM |-> system, off |-> off]

HeaderBlock(g) ==
    [kind |-> "H",
     BSX |-> fmt(WORKPIECE_LENGTH, MM, g.PRECISION),
     BSY |-> fmt(WORKPIECE_WIDTH, MM, g.PRECISION),
     BSZ |-> fmt(WORKPIECE_THICKNESS, MM, g.PRECISION),
     RX |-> fmt(WORKPIECE_LENGTH, MM, g.PRECISION),
     RY |-> fmt(WORKPIECE_WIDTH, MM, g.PRECISION)]

\* ]id, $E0 and KP
StartBlocks(contour, g) ==
    <<[kind |-> "]", id |-> contour.id],
      [kind |-> "KP", contour |-> contour.id, n |-> 0,
       X |-> fmt(contour.start_pos[1] + g.off[1], MM, g.PRECISION),
       Y |-> fmt(contour.start_pos[2] + g.off[2], MM, g.PRECISION),
       Z |-> fmt(contour.start_pos[3] + g.off[3], MM, g.PRECISION)]>>

\* $En and KL
LineBlock(contour, n, elem, prev, g) ==
    LET elem_x == elem.x + g.off[1]
        elem_y == elem.y + g.off[2]
        z_value == elem.z + g.off[3]
        dx == elem_x - prev[1]
        dy == elem_y - prev[2]
        dz == z_value - prev[3]
        wi_angle == IF Abs(dx) > TOL \/ Abs(dy) > TOL THEN Atan2(dy, dx) ELSE 0
        line_length_xy == Sqrt(dx * dx + dy * dy)
        wz_angle == IF line_length_xy > TOL THEN Atan2(dz, line_length_xy) ELSE 0
    IN  [kind |-> "KL", contour |-> contour.id, n |-> n,
         X |-> fmt(elem_x, MM, g.PRECISION),
         Y |-> fmt(elem_y, MM, g.PRECISION),
         Z |-> fmt(z_value, MM, g.PRECISION),
         WI |-> fmt(wi_angle, RAD, g.PRECISION),
         WZ |-> fmt(wz_angle, RAD, g.PRECISION)]

\* $En alone, for a skipped arc, or $En and KA; a is the resolved arc.
ArcLines(contour, n, elem, a, g) ==
    IF a.skip THEN [kind |-> "$E", contour |-> contour.id, n |-> n]
    ELSE [kind |-> "KA", contour |-> contour.id, n |-> n,
          X |-> fmt(a.x, MM, g.PRECISION),
          Y |-> fmt(a.y, MM, g.PRECISION),
          Z |-> fmt(a.z, MM, g.PRECISION),
          DS |-> DS(elem.direction, a.is_small_arc),
          dotDS |-> DS(elem.direction, a.is_small_arc),
          R |-> fmt(a.radius, MM, g.PRECISION),
          I |-> fmt(a.center_x, MM, g.PRECISION),
          J |-> fmt(a.center_y, MM, g.PRECISION),
          WI |-> fmt(a.start_angle, RAD, g.PRECISION),
          WO |-> fmt(a.end_angle, RAD, g.PRECISION)]

ArcBlock(contour, n, elem, prev, prev_orig, g) ==
    ArcLines(contour, n, elem, ResolveArc(elem, prev, prev_orig, g.off), g)

\* prev_elem_x_orig, ..., after an element: a skipped arc leaves it alone.
NextOrig(block, elem, prev_orig) ==
    IF block.kind = "$E" THEN prev_orig ELSE <<elem.x, elem.y, elem.z>>

ElementBlock(contour, n, elem, prev, prev_orig, g) ==
    IF elem.type = "KL" THEN LineBlock(contour, n, elem, prev, g)
    ELSE ArcBlock(contour, n, elem, prev, prev_orig, g)

RECURSIVE ElementBlocks(_, _, _, _, _, _)
RECURSIVE BlocksAfter(_, _, _, _, _, _)
\* The loop over contour['elements'], from element n on.
ElementBlocks(contour, n, elems, prev, prev_orig, g) ==
    IF elems = <<>> THEN <<>>
    ELSE BlocksAfter(contour, n, elems, prev_orig, g,
             ElementBlock(contour, n, Head(elems), prev, prev_orig, g))

\* The block of element n and the blocks of the elements after it.
BlocksAfter(contour, n, elems, prev_orig, g, block) ==
    <<block>>
    \o ElementBlocks(contour, n + 1, Tail(elems),
          <<Head(elems).x + g.off[1], Head(elems).y + g.off[2],
            Head(elems).z + g.off[3]>>,
          NextOrig(block, Head(elems), prev_orig), g)

ContourBlocks(contour, g) ==
    StartBlocks(contour, g)
    \o ElementBlocks(contour, 1, contour.elements,
          <<contour.start_pos[1] + g.off[1], contour.start_pos[2] + g.off[2],
            contour.start_pos[3] + g.off[3]>>,
          contour.start_pos, g)

RECURSIVE AllContourBlocks(_, _)
AllContourBlocks(cs, g) ==
    IF cs = <<>> THEN <<>>
    ELSE ContourBlocks(Head(cs), g) \o AllContourBlocks(Tail(cs), g)

\* [001
VariablesBlock(g, z_safe) ==
    [kind |-> "001",
     l |-> fmt(WORKPIECE_LENGTH, MM, g.PRECISION),
     w |-> fmt(WORKPIECE_WIDTH, MM, g.PRECISION),
     th |-> fmt(WORKPIECE_THICKNESS, MM, g.PRECISION),
     z_safe |-> fmt(z_safe, MM, g.PRECISION),
     KM |-> g.OUTPUT_COMMENTS]

WorkpieceBlock == [kind |-> "WerkStck", id |-> 100]

\* <101 \Kommentar\, with the offsets written with three decimals
CommentBlocks(g) ==
    IF g.OUTPUT_COMMENTS
    THEN <<[kind |-> "Kommentar", id |-> 101, system |-> g.COORDINATE_SYSTEM,
            X |-> IF g.COORDINATE_SYSTEM # "" THEN fmt(g.off[1], MM, 3) ELSE 0,
            Y |-> IF g.COORDINATE_SYSTEM # "" THEN fmt(g.off[2], MM, 3) ELSE 0,
            Z |-> IF g.COORDINATE_SYSTEM # "" THEN fmt(g.off[3], MM, 3) ELSE 0]>>
    ELSE <<>>

OperationBlock(op, g) ==
    CASE op.type = "BohrVert" ->
           [kind |-> "BohrVert", id |-> op.id,
            XA |-> fmt(op.xa + g.off[1], MM, g.PRECISION),
            YA |-> fmt(op.ya + g.off[2], MM, g.PRECISION),
            TI |-> fmt(op.depth, MM, g.PRECISION), TNO |-> op.tool]
      [] op.type = "Contourfraesen" ->
           [kind |-> "Contourfraesen", id |-> op.id, EA |-> op.contour,
            EE |-> op.contour, TNO |-> op.tool]
      [] OTHER ->
           [kind |-> "Pocket", id |-> op.id, EA |-> op.contour, TNO |-> op.tool]

\* A last block that is no terminator.
BlankBlock == [kind |-> ""]

TerminatorBlock == [kind |-> "!"]

\* A serializer that writes the operation records before the contours.
OperationsFirst(g, z_safe) == <<HeaderBlock(g)>> \o [k \in 1..Len(g.operations) |-> OperationBlock(g.operations[k], g)] \o <<VariablesBlock(g, z_safe), WorkpieceBlock>> \o CommentBlocks(g) \o AllContourBlocks(g.contours, g) \o <<TerminatorBlock>>

generate_mpr_content(g, z_safe) ==
    <<HeaderBlock(g)>>
    \o AllContourBlocks(g.contours, g)
    \o <<VariablesBlock(g, z_safe), WorkpieceBlock>>
    \o CommentBlocks(g)
    \o [k \in 1..Len(g.operations) |-> OperationBlock(g.operations[k], g)]
    \o <<TerminatorBlock>>

(***************************************************************************)
(* generate_gcode: the secondary output.  external is what the parallel    *)
(* post processor does: "text" (it returns G-code), "raise", or it returns  *)
(* a "bool", a "list" or another value that is no string, or an "empty"    *)
(* string or None.                                                         *)
(***************************************************************************)
ExternalOutcomes == {"text", "raise", "bool", "list", "empty"}

\* The names of the cutter compensation commands
CompensationNames == {"G41", "G41.1", "G42", "G42.1"}

\* The D of a cutter compensation command: its own, else the tool number
DWord(obj, cmd) ==
    IF Has(cmd.Parameters, "D") THEN {<<"D", Get(cmd.Parameters, "D", 0)>>}
    ELSE IF get_tool_number(obj) # 0 THEN {<<"D", get_tool_number(obj)>>}
    ELSE {}

\* One line of the fallback: cmd.Name and its parameters in the order of
\* their names, each written by fmt (the D of a cutter compensation
\* command first, as an integer).
GcodeLine(obj, cmd, precision) ==
    [Name |-> cmd.Name,
     Parameters |->
        (IF cmd.Name \in CompensationNames THEN DWord(obj, cmd) ELSE {})
        \cup {<<e[1], fmt(e[2], MM, precision)>> :
                 e \in {w \in cmd.Parameters :
                           cmd.Name \in CompensationNames => w[1] # "D"}}]

\* A line of the fallback that is no command.
TextLine(text) == [Name |-> text, Parameters |-> {}]

\* The header of the fallback
Preamble ==
    <<TextLine("(Generated by FreeCAD WoodWOP Post Processor)"), TextLine("(Date"),
      TextLine(""), TextLine("G21"), TextLine("G90"), TextLine("G40"), TextLine("")>>

\* The lines of one object with a Path
ObjectLines(obj, comments, precision) ==
    (IF comments THEN <<TextLine("(Operation")>> ELSE <<>>)
    \o [k \in 1..Len(obj.Commands) |-> GcodeLine(obj, obj.Commands[k], precision)]
    \o (IF comments THEN <<TextLine("(End operation)"), TextLine("")>> ELSE <<>>)

RECURSIVE FallbackLines(_, _, _)
FallbackLines(objs, comments, precision) ==
    IF objs = <<>> THEN <<>>
    ELSE (IF ~Head(objs).hasPath THEN <<>>
          ELSE ObjectLines(Head(objs), comments, precision))
         \o FallbackLines(Tail(objs), comments, precision)

\* A generate_gcode that falls back when woodwop_gcode_post.export raises
\* and returns whatever it returns otherwise.
generate_gcode_unchecked(objs, external, comments, precision) ==
    IF external # "raise"
    THEN [source |-> "woodwop_gcode_post", lines |-> <<>>]
    ELSE [source |-> "fallback",
          lines |-> Preamble \o FallbackLines(objs, comments, precision)
                    \o <<TextLine("M2"), TextLine("")>>]

\* The text woodwop_gcode_post.export returns is kept as it is; when it
\* raises or returns a bool, nothing or an empty string, the fallback is
\* written.
generate_gcode(objs, external, comments, precision) ==
    IF external = "text"
    THEN [source |-> "woodwop_gcode_post", lines |-> <<>>]
    ELSE [source |-> "fallback",
          lines |-> Preamble \o FallbackLines(objs, comments, precision)
                    \o <<TextLine("M2"), TextLine("")>>]

G(name, x, y, z) == Cmd(name, {<<"X", x>>, <<"Y", y>>, <<"Z", z>>})

GA(name, x, y, z, i, j) ==
    Cmd(name, {<<"X", x>>, <<"Y", y>>, <<"Z", z>>, <<"I", i>>, <<"J", j>>})

Obj(label, words, tool, commands) ==
    [Label |-> label, hasPath |-> TRUE, ProxyType |-> words,
     ToolController |-> tool, Commands |-> commands]

\* G0 (0,0,0), G1 (10,0,0), G2 (20,10,0) I10 J0, G1 (20,20,0)
ExampleCommands ==
    <<G("G0", 0, 0, 0), G("G1", 10 * MM, 0, 0),
      GA("G2", 20 * MM, 10 * MM, 0, 10 * MM, 0), G("G1", 20 * MM, 20 * MM, 0)>>

\* A semicircle of chord 10.006 and one whose end is 0.001 past its circle.
PocketCommands ==
    <<Cmd("T7", {}), G("G0", 30018, 0, -MM),
      Cmd("G3", {<<"X", 0>>, <<"Y", 0>>, <<"I", -15009>>, <<"J", 0>>}),
      Cmd("G2", {<<"X", 30003>>, <<"I", 15000>>, <<"J", 0>>})>>

DrillCommands ==
    <<G("G0", 5 * MM, 5 * MM, 2 * MM),
      Cmd("G81", {<<"X", 5 * MM>>, <<"Y", 5 * MM>>, <<"Z", -3 * MM>>, <<"R", MM>>}),
      Cmd("G81", {<<"X", -2 * MM>>, <<"Y", 8 * MM>>, <<"Z", -3 * MM>>})>>

\* An arc of radius 1/3000 mm at the origin, a line to a point off the
\* grid of three decimals, and an arc without I and J whose end is 4 mm
\* from its start.
SlotCommands ==
    <<Cmd("G2", {<<"X", 2>>, <<"I", 1>>, <<"J", 0>>}), G("G1", 3001, 2, 0),
      G("G1", 2 * MM, MM, 0), Cmd("G2", {<<"X", 6 * MM>>, <<"Y", MM>>})>>

\* Commands that move less than the tolerance, and none that moves: a
\* spindle start, a cutter compensation and a line of 1/3000 mm.
DwellCommands == <<Cmd("M3", {}), Cmd("G41", {}), Cmd("G1", {<<"X", 1>>})>>

Objects ==
    { Obj("Profile", <<{"profile"}>>, {5}, ExampleCommands),
      Obj("Pocket", <<{"pocket"}>>, {}, PocketCommands),
      Obj("Drilling", <<{"drill"}>>, {3}, DrillCommands),
      Obj("Slot", <<>>, {}, SlotCommands),
      Obj("Dwell", <<{}>>, {}, DwellCommands),
      Obj("Empty", <<{"profile"}>>, {5}, <<>>),
      [Label |-> "Job", hasPath |-> FALSE, ProxyType |-> <<{}>>,
       ToolController |-> {}, Commands |-> <<>>] }

\* The largest number of objects in one objectslist.
MaxObjs == 2

\* The objectslist of a call takes its objects in this order of their
\* labels, an object as many times as the list has room for.
ObjectOrder == <<"Job", "Dwell", "Profile", "Pocket", "Drilling", "Slot", "Empty">>

Rank(obj) == CHOOSE k \in 1..Len(ObjectOrder) : ObjectOrder[k] = obj.Label

InOrder(objs, obj) == IF objs = <<>> THEN TRUE ELSE Rank(objs[Len(objs)]) <= Rank(obj)

\* Where the session is: "fresh" before the first export call, "first"
\* from its start, "later" from the start of every call after it.
NextCall(session) == IF session = "fresh" THEN "first" ELSE "later"

\* argstring.split().  --no-z-offset stands for a request not to add the
\* offset to Z: the loops over the arguments have no branch for such a
\* word and pass over it.
ArgStrings ==
    { <<>>, <<"--g54", "--report", "--no-z-offset">>,
      <<"/no_z_safe20", "--precision=2", "--no-comments">>,
      <<"/nc", "/log">> }

\* arg.lstrip('-').lstrip('/')
Normalized(arg) ==
    CASE arg = "--g54" -> "g54"
      [] arg = "/nc" -> "nc"
      [] arg = "--no-comments" -> "no-comments"
      [] arg = "--report" -> "report"
      [] arg = "/no_z_safe20" -> "no_z_safe20"
      [] arg = "--precision=2" -> "precision=2"
      [] arg = "/log" -> "log"
      [] arg = "--no-z-offset" -> "no-z-offset"
      [] OTHER -> arg

HasArg(args, name) == \E k \in 1..Len(args) : Normalized(args[k]) = name

\* A Job: its Fixtures, the minimum corner of the bounding box of its Model
\* or Base (<<>> without one) and the ClearanceHeightOffset of its
\* SetupSheet (<<>> without one).  job is <<>> for None, else <<the Job>>.
Jobs ==
    { <<>>,
      <<[Fixtures |-> <<>>, Box |-> <<>>, Clearance |-> <<5 * MM>>]>>,
      <<[Fixtures |-> <<"G55">>, Box |-> <<-MM, -MM - 1, 0>>,
         Clearance |-> <<30 * MM>>]>> }

(***************************************************************************)
(* The state.                                                              *)
(*   - the module globals of woodwop_post.py, under their names;           *)
(*   - one export call: pc ("idle" between calls, "run" inside one), its   *)
(*     arguments argstring, job and the objects of objectslist the loop    *)
(*     has reached, result, what the last finished call returned, and      *)
(*     calls, whether no call, one call or more calls have begun, and      *)
(*     renderer, what woodwop_gcode_post.export did in this call           *)
(*     ("unused" while and when export does not call it);                  *)
(*   - one run of the normalizer: path_commands, the commands walked so    *)
(*     far, norm, its locals, and cursor_log, the cursor before each       *)
(*     command;                                                            *)
(*   - one repeated serialization: shift, the change of the X offset, and  *)
(*     shifted, the output under the changed offset.                       *)
(***************************************************************************)
VARIABLES contour_counter, contours, operations, tools_used,
          COORDINATE_SYSTEM, COORDINATE_OFFSET_X, COORDINATE_OFFSET_Y,
          COORDINATE_OFFSET_Z, PRECISION, OUTPUT_COMMENTS,
          ENABLE_VERBOSE_LOGGING, ENABLE_JOB_REPORT, OUTPUT_NC_FILE,
          ENABLE_NO_Z_SAFE20,
          pc, argstring, job, objectslist, result, calls, renderer,
          path_commands, norm, cursor_log,
          shift, shifted

trackingVars == <<contour_counter, contours, operations, tools_used>>

offsetVars == <<COORDINATE_OFFSET_X, COORDINATE_OFFSET_Y, COORDINATE_OFFSET_Z>>

settingVars == <<COORDINATE_SYSTEM, PRECISION, OUTPUT_COMMENTS>>

flagVars ==
    <<ENABLE_VERBOSE_LOGGING, ENABLE_JOB_REPORT, OUTPUT_NC_FILE, ENABLE_NO_Z_SAFE20>>

callVars == <<pc, argstring, job, objectslist, result, calls, renderer>>

normVars == <<path_commands, norm, cursor_log>>

serVars == <<shift, shifted>>

vars == <<trackingVars, offsetVars, settingVars, flagVars, callVars, normVars, serVars>>

\* The globals as the module defines them.
ModuleGlobals ==
    /\ contour_counter = 1
    /\ contours = <<>>
    /\ operations = <<>>
    /\ tools_used = {}
    /\ COORDINATE_SYSTEM = ""
    /\ COORDINATE_OFFSET_X = 0
    /\ COORDINATE_OFFSET_Y = 0
    /\ COORDINATE_OFFSET_Z = 0
    /\ PRECISION = 3
    /\ OUTPUT_COMMENTS = TRUE
    /\ ENABLE_VERBOSE_LOGGING = FALSE
    /\ ENABLE_JOB_REPORT = FALSE
    /\ OUTPUT_NC_FILE = FALSE
    /\ ENABLE_NO_Z_SAFE20 = FALSE

NoCall ==
    /\ pc = "idle"
    /\ argstring = <<>>
    /\ job = <<>>
    /\ objectslist = <<>>
    /\ result = <<>>
    /\ calls = "fresh"
    /\ renderer = "unused"

NoNorm ==
    /\ path_commands = <<>>
    /\ norm = NormState0
    /\ cursor_log = <<>>

NoSer ==
    /\ shift = 0
    /\ shifted = <<>>

(***************************************************************************)
(* export: a session of calls.  One call is ExportBegin, then              *)
(* ExportObject for every object of its objectslist, then ExportFinish.    *)
(***************************************************************************)
Init == ModuleGlobals /\ NoCall /\ NoNorm /\ NoSer

\* The tracking globals become the fields of t.
SetTracking(t) ==
    /\ contour_counter' = t.contour_counter
    /\ contours' = t.contours
    /\ operations' = t.operations
    /\ tools_used' = t.tools_used

\* A reset that leaves the contours of the call before.
ResetKeepingContours == Tracking(1, contours, <<>>, {})

\* "Reset globals"
ResetGlobals == Tracking(1, <<>>, <<>>, {})

\* The --g54 flag
SystemFromArgs(args, system) == IF HasArg(args, "g54") THEN "G54" ELSE system

StartsWithG5(fixture) == fixture \in {"G54", "G55", "G56", "G57", "G58", "G59"}

\* The Fixtures of the Job
SystemFromJob(j, system) ==
    IF j = <<>> \/ j[1].Fixtures = <<>> THEN system
    ELSE IF \E k \in 1..Len(j[1].Fixtures) : j[1].Fixtures[k] = "G54" THEN "G54"
    ELSE IF StartsWithG5(j[1].Fixtures[1]) THEN j[1].Fixtures[1]
    ELSE system

\* The coordinate system the call starts from.
SystemAtEntry(system) == system

\* --precision=
PrecisionFromArgs(args, precision) ==
    IF HasArg(args, "precision=2") THEN 2 ELSE precision

ExportBegin(args, j) ==
    /\ pc = "idle"
    /\ pc' = "run"
    /\ argstring' = args
    /\ job' = j
    /\ objectslist' = <<>>
    /\ result' = <<>>
    /\ calls' = NextCall(calls)
    /\ renderer' = "unused"
    /\ ENABLE_VERBOSE_LOGGING' = HasArg(args, "log")
    /\ ENABLE_JOB_REPORT' = (HasArg(args, "report") \/ HasArg(args, "no_z_safe20"))
    /\ OUTPUT_NC_FILE' = HasArg(args, "nc")
    /\ ENABLE_NO_Z_SAFE20' = HasArg(args, "no_z_safe20")
    /\ SetTracking(ResetGlobals)
    /\ OUTPUT_COMMENTS' = (OUTPUT_COMMENTS /\ ~HasArg(args, "no-comments"))
    /\ PRECISION' = PrecisionFromArgs(args, PRECISION)
    /\ COORDINATE_SYSTEM' =
           SystemFromJob(j, SystemFromArgs(args, SystemAtEntry(COORDINATE_SYSTEM)))
    /\ UNCHANGED <<offsetVars, normVars, serVars>>

\* One pass of the loop over objectslist.
ExportObject(obj) ==
    /\ pc = "run"
    /\ Len(objectslist) < MaxObjs
    /\ objectslist' = Append(objectslist, obj)
    /\ SetTracking(IF ~obj.hasPath \/ obj.Commands = <<>>
                   THEN Tracking(contour_counter, contours, operations, tools_used)
                   ELSE process_path_object(
                            Tracking(contour_counter, contours, operations,
                                     tools_used), obj))
    /\ UNCHANGED <<pc, argstring, job, result, calls, renderer>>
    /\ UNCHANGED <<offsetVars, settingVars, flagVars, normVars, serVars>>


\* The offset of the call: minus the minimum corner when a coordinate
\* system is set, else zero.
Negated(min) == <<-min[1], -min[2], -min[3]>>

\* An offset taken from the contours and operations whatever the Job.
OffsetFromContours(system, j, cs, ops) == IF system # "" THEN Negated(calculate_part_minimum(cs, ops)) ELSE <<0, 0, 0>>

\* The minimum corner of the BoundBox of the Job's Model, else of its
\* Base: <<>> without a Job or without either.
BoundBoxMinimum(j) == IF j # <<>> THEN j[1].Box ELSE <<>>

CoordinateOffset(system, j, cs, ops) ==
    IF system # ""
    THEN Negated(IF BoundBoxMinimum(j) # <<>> THEN BoundBoxMinimum(j)
                 ELSE calculate_part_minimum(cs, ops))
    ELSE <<0, 0, 0>>

\* z_safe: 20 mm, or the ClearanceHeightOffset, raised to 20 mm unless
\* ENABLE_NO_Z_SAFE20
ZSafe(j, no_z_safe20) ==
    IF j # <<>> /\ j[1].Clearance # <<>>
    THEN IF ~no_z_safe20 /\ j[1].Clearance[1] < 20 * MM THEN 20 * MM
         ELSE j[1].Clearance[1]
    ELSE 20 * MM

\* The list export returns.
Result(mpr_content, external) ==
    IF OUTPUT_NC_FILE
    THEN <<<<"mpr", mpr_content>>,
           <<"nc", generate_gcode(objectslist, external, OUTPUT_COMMENTS,
                                  PRECISION)>>>>
    ELSE <<<<"mpr", mpr_content>>>>

\* A serializer that writes the offset start point back into the contour.
StoreWithOffsetStart(t, off) ==
    [t EXCEPT !.contours =
        [c \in 1..Len(t.contours) |->
            [t.contours[c] EXCEPT !.start_pos =
                <<@[1] + off[1], @[2] + off[2], @[3] + off[3]>>]]]

\* contours and operations after generate_mpr_content: it copies what it
\* reads into locals (start_x, x_value, center_x, xa, ...), adds the
\* offset to the locals and assigns no key of a contour, an element or an
\* operation.
StoreAfterSerialization(t, off) == t

\* What the call of generate_mpr_content hands back to export: "text" is
\* the text generate_mpr_content builds; "empty" and "none" are an empty
\* string and a value that is no string, which only a renderer at fault
\* hands back.
RendererOutcomes == {"text", "empty", "none"}

\* if not isinstance(mpr_content, str): raise ValueError(...); a string of
\* length 0 is reported by print and PrintError, and export goes on.
Raises(rendered) == rendered = "none"

\* A G-code line with the offset added to its X, Y and Z words.
OffsetLine(line, off) ==
    [line EXCEPT !.Parameters =
        {<<w[1], CASE w[1] = "X" -> w[2] + off[1]
                   [] w[1] = "Y" -> w[2] + off[2]
                   [] w[1] = "Z" -> w[2] + off[3]
                   [] OTHER -> w[2]>> : w \in @}]

\* An export whose G-code carries the offset, as its MPR text does.
ReturnedWithOffsetGcode(system, off, rendered, external) ==
    IF Raises(rendered) THEN <<>>
    ELSE IF ~OUTPUT_NC_FILE
    THEN <<<<"mpr", generate_mpr_content(
                        Globals(contours, operations, PRECISION, OUTPUT_COMMENTS,
                                system, off),
                        ZSafe(job, ENABLE_NO_Z_SAFE20))>>>>
    ELSE <<<<"mpr", generate_mpr_content(
                        Globals(contours, operations, PRECISION, OUTPUT_COMMENTS,
                                system, off),
                        ZSafe(job, ENABLE_NO_Z_SAFE20))>>,
           <<"nc", [source |-> "fallback",
                    lines |-> [k \in 1..Len(FallbackLines(objectslist, FALSE, PRECISION))
                                 |-> OffsetLine(FallbackLines(objectslist, FALSE,
                                                              PRECISION)[k], off)]]>>>>

\* What export returns (<<>> when it raises), off being the offset it
\* computed and rendered what generate_mpr_content handed back.
Returned(system, off, rendered, external) ==
    CASE Raises(rendered) -> <<>>
      [] rendered = "empty" -> Result(<<>>, external)
      [] OTHER ->
           Result(generate_mpr_content(
                      Globals(contours, operations, PRECISION,
                              OUTPUT_COMMENTS, system, off),
                      ZSafe(job, ENABLE_NO_Z_SAFE20)),
                  external)

\* The end of export, off being the offset it computed and rendered what
\* generate_mpr_content handed back.
FinishWith(off, rendered, external) ==
    /\ SetTracking(StoreAfterSerialization(
                       Tracking(contour_counter, contours, operations, tools_used),
                       off))
    /\ COORDINATE_OFFSET_X' = off[1]
    /\ COORDINATE_OFFSET_Y' = off[2]
    /\ COORDINATE_OFFSET_Z' = off[3]
    /\ pc' = (IF Raises(rendered) THEN "raised" ELSE "idle")
    /\ renderer' = (IF OUTPUT_NC_FILE /\ ~Raises(rendered) THEN external ELSE "unused")
    /\ result' = Returned(COORDINATE_SYSTEM, off, rendered, external)

\* export from the offset to its return or its exception.
ReturnCall(rendered, external) ==
    /\ pc = "run"
    /\ FinishWith(CoordinateOffset(COORDINATE_SYSTEM, job, contours, operations),
                  rendered, external)
    /\ UNCHANGED <<argstring, job, objectslist, calls>>
    /\ UNCHANGED <<settingVars, flagVars, normVars>>

ExportReturn(rendered, external) == ReturnCall(rendered, external) /\ UNCHANGED serVars

ExportFinish(external) == ExportReturn("text", external)

Next ==
    \/ \E args \in ArgStrings, j \in Jobs : ExportBegin(args, j)
    \/ \E obj \in Objects : InOrder(objectslist, obj) /\ ExportObject(obj)
    \/ \E external \in (IF OUTPUT_NC_FILE THEN ExternalOutcomes ELSE {"text"}) :
          ExportFinish(external)

Spec == Init /\ [][Next]_vars

(***************************************************************************)
(* export around a renderer at fault: SpecFault is Spec with a call of     *)
(* generate_mpr_content that may hand back an empty string or a value      *)
(* that is no string.  pc = "raised" after export raised.                  *)
(***************************************************************************)
ExportFinishFaulty(rendered, external) ==
    /\ rendered # "text"
    /\ ExportReturn(rendered, external)

NextFault ==
    \/ Next
    \/ \E rendered \in RendererOutcomes :
          ExportFinishFaulty(rendered, "text")

SpecFault == Init /\ [][NextFault]_vars

(***************************************************************************)
(* Two exports of the same objects: SpecPair is the first call of Spec,    *)
(* which under /nc can end twice, once as it is (result) and once with     *)
(* the other selection of the coordinate system (shifted): with G54 when   *)
(* the call has selected none, with none when it has selected one.         *)
(***************************************************************************)
OtherSystem == IF COORDINATE_SYSTEM = "" THEN "G54" ELSE ""

ExportPair(external) ==
    /\ OUTPUT_NC_FILE
    /\ ReturnCall("text", external)
    /\ shifted' = Returned(OtherSystem,
                           CoordinateOffset(OtherSystem, job, contours, operations),
                           "text", external)
    /\ shift' = shift

\* One call, from the globals of the module as loaded.
NextPair ==
    \/ (calls = "fresh" \/ pc = "run") /\ Next
    \/ \E external \in ExternalOutcomes : ExportPair(external)

SpecPair == Init /\ [][NextPair]_vars

(***************************************************************************)
(* The normalizer alone: SpecNorm walks one command sequence, a command a  *)
(* step, as the loop of extract_contour_from_path does.                    *)
(***************************************************************************)
NormCommands ==
    { G("G0", 0, 0, 0), G("G1", 10 * MM, 0, 0),
      GA("G2", 20 * MM, 10 * MM, 0, 10 * MM, 0), G("G1", 20 * MM, 20 * MM, 0),
      Cmd("G1", {<<"X", 1>>}), Cmd("G00", {<<"X", 2>>, <<"Y", 2>>}),
      Cmd("G01", {<<"X", TOL>>}),
      GA("G3", 0, 5 * MM, -MM, -5 * MM, 0),
      Cmd("G02", {<<"X", 6 * MM>>, <<"Y", MM>>}),
      Cmd("G03", {<<"X", 7 * MM>>, <<"Y", MM>>, <<"I", 3 * MM>>, <<"J", 4 * MM>>}),
      Cmd("G81", {<<"X", 5 * MM>>, <<"Y", 5 * MM>>, <<"Z", -3 * MM>>}) }

InitNorm == ModuleGlobals /\ NoCall /\ NoNorm /\ NoSer

\* One pass of the loop over path_commands.
NormStep(cmd) ==
    /\ Len(path_commands) < MaxCmds
    /\ path_commands' = Append(path_commands, cmd)
    /\ cursor_log' = Append(cursor_log, <<norm.current_x, norm.current_y, norm.current_z>>)
    /\ norm' = ProcessCommand(norm, cmd)
    /\ UNCHANGED <<trackingVars, offsetVars, settingVars, flagVars, callVars, serVars>>

NextNorm == \E cmd \in NormCommands : NormStep(cmd)

SpecNorm == InitNorm /\ [][NextNorm]_vars

\* The position command k resolves to: its X, Y and Z, each defaulting to
\* the cursor before it.
ResolvedAt(k) ==
    <<Get(path_commands[k].Parameters, "X", cursor_log[k][1]),
      Get(path_commands[k].Parameters, "Y", cursor_log[k][2]),
      Get(path_commands[k].Parameters, "Z", cursor_log[k][3])>>

\* The cursor after command k.
CursorAfter(k) ==
    IF k = Len(path_commands)
    THEN <<norm.current_x, norm.current_y, norm.current_z>>
    ELSE cursor_log[k + 1]

\* Command k is a rapid or linear move of less than the tolerance on
\* every axis.
SubToleranceMove(k) ==
    /\ path_commands[k].Name \in RapidNames \cup LinearNames
    /\ \A a \in 1..3 : Abs(ResolvedAt(k)[a] - cursor_log[k][a]) < TOL

\* C7: the cursor after every processed command is the position the
\* command resolves to, whether or not the command emitted an element; and
\* a sequence made only of sub-tolerance moves yields no element.
C7_CursorFollowsEveryCommand ==
    /\ \A k \in 1..Len(path_commands) : CursorAfter(k) = ResolvedAt(k)
    /\ (\A k \in 1..Len(path_commands) : SubToleranceMove(k))
          => norm.elements = <<>>

\* Two sub-tolerance moves have left the cursor away from the origin,
\* and no element.
C7_Witness ==
    /\ Len(path_commands) >= 2
    /\ \A k \in 1..Len(path_commands) : SubToleranceMove(k)
    /\ norm.elements = <<>>
    /\ <<norm.current_x, norm.current_y, norm.current_z>> # <<0, 0, 0>>
    /\ <<norm.current_x, norm.current_y, norm.current_z>>
          = ResolvedAt(Len(path_commands))

\* What the statement of C10 says of an element: a Line and its end
\* point, or an Arc, its end point, its center offset and its direction.
Shape(e) ==
    IF e.type = "KL" THEN <<"Line", e.x, e.y, e.z>>
    ELSE <<"Arc", e.x, e.y, e.z, e.i, e.j, e.direction>>

\* The shapes command k is to yield.
ExpectedOf(k) ==
    CASE path_commands[k].Name \in RapidNames \cup LinearNames ->
           IF SubToleranceMove(k) THEN <<>>
           ELSE <<<<"Line", ResolvedAt(k)[1], ResolvedAt(k)[2], ResolvedAt(k)[3]>>>>
      [] path_commands[k].Name \in ArcNames ->
           <<<<"Arc", ResolvedAt(k)[1], ResolvedAt(k)[2], ResolvedAt(k)[3],
               Get(path_commands[k].Parameters, "I", 0),
               Get(path_commands[k].Parameters, "J", 0),
               IF path_commands[k].Name \in {"G2", "G02"} THEN "CW" ELSE "CCW">>>>
      [] OTHER -> <<>>

RECURSIVE ExpectedShapes(_)
\* The shapes commands 1..k are to yield, in command order.
ExpectedShapes(k) ==
    IF k = 0 THEN <<>> ELSE ExpectedShapes(k - 1) \o ExpectedOf(k)

\* r is sqrt(i^2 + j^2), to the nearest length unit.
IsRootOf(r, n) == (n = 0 /\ r = 0) \/ (r > 0 /\ r * r - r < n /\ n <= r * r + r)

\* No arc of the sequence changes Z by more than the tolerance.
ArcsKeepZ ==
    \A k \in 1..Len(path_commands) :
        path_commands[k].Name \in ArcNames
           => Abs(ResolvedAt(k)[3] - cursor_log[k][3]) <= TOL

MovementAt(k) == path_commands[k].Name \in MoveNames

\* C10: when no arc changes Z, the normalizer returns as start position
\* the cursor before the first movement command and as elements, in
\* command order, one Line for every rapid or linear move that is not
\* sub-tolerance and one Arc for every arc command, with the commanded end
\* point, the command's (i, j), the radius sqrt(i^2 + j^2) and CW for G2,
\* CCW for G3.
C10_NormalizerOutput ==
    ArcsKeepZ =>
        /\ Len(norm.elements) = Len(ExpectedShapes(Len(path_commands)))
        /\ \A n \in 1..Len(norm.elements) :
              /\ Shape(norm.elements[n]) = ExpectedShapes(Len(path_commands))[n]
              /\ norm.elements[n].type = "KA"
                    => IsRootOf(norm.elements[n].r,
                                norm.elements[n].i * norm.elements[n].i
                                + norm.elements[n].j * norm.elements[n].j)
        /\ \A k \in 1..Len(path_commands) :
              (MovementAt(k) /\ \A h \in 1..(k - 1) : ~MovementAt(h))
                 => Extracted(norm)[2] = cursor_log[k]

\* The example of the statement has been walked: G0 (0,0,0), G1 (10,0,0),
\* G2 (20,10,0) I10 J0, G1 (20,20,0) gave start (0,0,0), a Line to
\* (10,0,0), a CW Arc to (20,10,0) with i = 10, j = 0, r = 10 and a Line to
\* (20,20,0).
C10_Witness ==
    /\ path_commands = ExampleCommands
    /\ Extracted(norm)[2] = <<0, 0, 0>>
    /\ Len(norm.elements) = 3
    /\ Shape(norm.elements[1]) = <<"Line", 10 * MM, 0, 0>>
    /\ Shape(norm.elements[2]) = <<"Arc", 20 * MM, 10 * MM, 0, 10 * MM, 0, "CW">>
    /\ norm.elements[2].r = 10 * MM
    /\ Shape(norm.elements[3]) = <<"Line", 20 * MM, 20 * MM, 0>>

(***************************************************************************)
(* Properties of the session                                               *)
(***************************************************************************)
\* A call has finished.
Done == pc = "idle" /\ result # <<>>

\* The primary output of the last finished call.
Mpr == result[1][2]

ContourKinds == {"]", "KP", "KL", "KA", "$E"}

OperationKinds == {"BohrVert", "Contourfraesen", "Pocket"}

\* The blocks of the primary output whose kind is in kinds, in order.
BlocksOf(kinds) == SelectSeq(Mpr, LAMBDA b : b.kind \in kinds)

RECURSIVE DerivedFrom(_, _)
\* What the objects objs alone yield, from a state without contours,
\* operations or tools and with the counter at 1.
DerivedFrom(t, objs) ==
    IF objs = <<>> THEN t
    ELSE DerivedFrom(IF ~Head(objs).hasPath \/ Head(objs).Commands = <<>> THEN t
                     ELSE process_path_object(t, Head(objs)),
                     Tail(objs))

OwnGeometry ==
    DerivedFrom([contour_counter |-> 1, contours |-> <<>>, operations |-> <<>>,
                 tools_used |-> {}], objectslist)

\* The geometry state is own.
HoldsOnly(own) ==
    /\ contour_counter = own.contour_counter
    /\ contours = own.contours
    /\ operations = own.operations
    /\ tools_used = own.tools_used

\* The contour blocks cblocks and the operation records oblocks are those
\* of own, one for one and in order.
Serializes(own, cblocks, oblocks) ==
    /\ Len(cblocks) = Len(own.contours)
    /\ \A k \in 1..Len(cblocks) : cblocks[k].id = own.contours[k].id
    /\ Len(oblocks) = Len(own.operations)
    /\ \A k \in 1..Len(oblocks) :
          /\ oblocks[k].kind = own.operations[k].type
          /\ oblocks[k].TNO = own.operations[k].tool

\* C1: inside a call and after it, contour_counter, contours, operations
\* and tools_used are what the objects of this call alone yield from the
\* reset state (counter 1, nothing else), and the output of the finished
\* call holds one contour block for each of these contours and one
\* operation record for each of these operations, in order, and no other.
C1_ResetOnEntry ==
    /\ pc = "run" \/ Done => HoldsOnly(OwnGeometry)
    /\ Done => Serializes(OwnGeometry, BlocksOf({"]"}), BlocksOf(OperationKinds))

\* A second call has finished whose one object yields one contour, and
\* the output holds that contour alone, numbered 1.
C1_Witness ==
    /\ Done
    /\ calls = "later"
    /\ Len(objectslist) = 1
    /\ Len(contours) = 1
    /\ contours[1].id = 1
    /\ Len(BlocksOf({"]"})) = 1
    /\ tools_used = {get_tool_number(objectslist[1])}

\* The call's own inputs select no coordinate system: no g54 flag, and no
\* Job with Fixtures.
SelectsNoSystem ==
    /\ ~HasArg(argstring, "g54")
    /\ job = <<>> \/ job[1].Fixtures = <<>>

\* C2: a finished call whose own inputs select no coordinate system has
\* the offset (0, 0, 0), and its output shows every start point, drill and
\* comment without offset, whatever calls preceded it.
C2_NoSystemNoOffset ==
    Done /\ SelectsNoSystem
       => /\ <<COORDINATE_OFFSET_X, COORDINATE_OFFSET_Y, COORDINATE_OFFSET_Z>>
                = <<0, 0, 0>>
          /\ \A k \in 1..Len(BlocksOf({"KP"})) :
                BlocksOf({"KP"})[k].X
                   = fmt(contours[k].start_pos[1], MM, PRECISION)

\* A call without g54 flag and without Job has finished after another
\* call, with a coordinate system and an offset that is not zero.
C2_Witness ==
    /\ Done
    /\ calls = "later"
    /\ argstring = <<>>
    /\ job = <<>>
    /\ COORDINATE_SYSTEM = "G54"
    /\ COORDINATE_OFFSET_X # 0

\* The pre-offset end point of the element before element n of contour
\* c: its start position for n = 1.
P0(c, n) ==
    IF n = 1 THEN c.start_pos
    ELSE <<c.elements[n - 1].x, c.elements[n - 1].y, c.elements[n - 1].z>>

\* The KA record of the output for element n of contour c, as a set: empty
\* when the output has none.
ArcRecords(c, n) ==
    {k \in 1..Len(Mpr) :
        Mpr[k].kind = "KA" /\ Mpr[k].contour = c.id /\ Mpr[k].n = n}

\* The arcs of the stored contours, as pairs <<contour index, element
\* number>>.
StoredArcs ==
    UNION {{<<c, n>> : n \in {m \in 1..Len(contours[c].elements) :
                                 contours[c].elements[m].type = "KA"}} :
           c \in 1..Len(contours)}

\* C4: for every arc element, after lines or arcs and under any offset,
\* the output shows as center (.I, .J) the point P0 + (i, j) + (offset_x,
\* offset_y), written with PRECISION decimals, P0 being the pre-offset end
\* point of the element before it.
C4_ArcCenter ==
    Done =>
        \A a \in StoredArcs :
            /\ ArcRecords(contours[a[1]], a[2]) # {}
            /\ \A k \in ArcRecords(contours[a[1]], a[2]) :
                  /\ Mpr[k].I = fmt(P0(contours[a[1]], a[2])[1]
                                    + contours[a[1]].elements[a[2]].i
                                    + COORDINATE_OFFSET_X, MM, PRECISION)
                  /\ Mpr[k].J = fmt(P0(contours[a[1]], a[2])[2]
                                    + contours[a[1]].elements[a[2]].j
                                    + COORDINATE_OFFSET_Y, MM, PRECISION)

\* Under an offset that is not zero, an arc that follows an arc has been
\* written with the center P0 + (i, j) + offset.
C4_Witness ==
    /\ Done
    /\ COORDINATE_OFFSET_Y # 0
    /\ \E a \in StoredArcs :
          /\ a[2] > 1
          /\ contours[a[1]].elements[a[2] - 1].type = "KA"
          /\ \E k \in ArcRecords(contours[a[1]], a[2]) :
                Mpr[k].J = fmt(contours[a[1]].elements[a[2] - 1].y
                               + contours[a[1]].elements[a[2]].j
                               + COORDINATE_OFFSET_Y, MM, PRECISION)

\* The sweep of arc element n of contour c, from the stored geometry.
SweepOf(c, n) ==
    Abs(NormalizeEnd(c.elements[n].direction,
                     Atan2(-c.elements[n].j, -c.elements[n].i),
                     Atan2(c.elements[n].y - P0(c, n)[2] - c.elements[n].j,
                           c.elements[n].x - P0(c, n)[1] - c.elements[n].i))
        - Atan2(-c.elements[n].j, -c.elements[n].i))

\* chord_length(P0, P1) of element n of contour c
ChordOf(c, n) == Distance(P0(c, n), <<c.elements[n].x, c.elements[n].y>>)

\* C5: every arc the output shows whose sweep is within 0.001 rad of pi
\* has a radius R with 2R >= chord_length(P0, P1) - 1e-6.
C5_Feasible180 ==
    Done =>
        \A a \in StoredArcs :
            Abs(SweepOf(contours[a[1]], a[2]) - PI) < ANGLE_TOL
               => \A k \in ArcRecords(contours[a[1]], a[2]) :
                     1000 * (2 * Mpr[k].R - ChordOf(contours[a[1]], a[2])) >= -TOL

\* With two decimals, a half circle of chord 10.006 has been written with
\* the radius 5.00.
C5_Witness ==
    /\ Done
    /\ PRECISION = 2
    /\ \E a \in StoredArcs :
          /\ Abs(SweepOf(contours[a[1]], a[2]) - PI) < ANGLE_TOL
          /\ ChordOf(contours[a[1]], a[2]) = 30018
          /\ \E k \in ArcRecords(contours[a[1]], a[2]) : Mpr[k].R = 5 * MM

\* The same with the three decimals of the default: the radius written is
\* never less than half the chord.
C5_Feasible180AtDefault == PRECISION = 3 => C5_Feasible180

\* The minimum the locator returns for the stored geometry.
PartMinimum == calculate_part_minimum(contours, operations)

\* The stored elements, as pairs <<contour index, element number>>.
StoredElements ==
    UNION {{<<c, n>> : n \in 1..Len(contours[c].elements)} : c \in 1..Len(contours)}

\* p is at or above the minimum min on the axes 1..axes.
Bounded(min, p, axes) == \A a \in 1..axes : min[a] <= p[a]

\* The minimum is below every start position, every end point, every arc
\* center and every drill position, and is the origin without any.
MinimumBelowPoints(min) ==
    /\ \A c \in 1..Len(contours) : Bounded(min, contours[c].start_pos, 3)
    /\ \A e \in StoredElements :
          Bounded(min, <<contours[e[1]].elements[e[2]].x, contours[e[1]].elements[e[2]].y,
                    contours[e[1]].elements[e[2]].z>>, 3)
    /\ \A a \in StoredArcs :
          Bounded(min, <<P0(contours[a[1]], a[2])[1] + contours[a[1]].elements[a[2]].i,
                    P0(contours[a[1]], a[2])[2] + contours[a[1]].elements[a[2]].j,
                    P0(contours[a[1]], a[2])[3]>>, 3)
    /\ \A k \in 1..Len(operations) :
          operations[k].type = "BohrVert"
             => Bounded(min, <<operations[k].xa, operations[k].ya, -operations[k].depth>>, 3)
    /\ (contours = <<>> /\ \A k \in 1..Len(operations) : operations[k].type # "BohrVert")
          => min = <<0, 0, 0>>

\* The extent center - radius of a stored arc, on X and Y.
ExtentOf(a) ==
    <<P0(contours[a[1]], a[2])[1] + contours[a[1]].elements[a[2]].i
         - contours[a[1]].elements[a[2]].r,
      P0(contours[a[1]], a[2])[2] + contours[a[1]].elements[a[2]].j
         - contours[a[1]].elements[a[2]].r>>

MinimumBelowEveryExtent(min) ==
    /\ MinimumBelowPoints(min)
    /\ \A a \in StoredArcs : Bounded(min, ExtentOf(a), 2)

MinimumBelowExtents(min) ==
    /\ MinimumBelowPoints(min)
    /\ \A a \in StoredArcs :
          contours[a[1]].elements[a[2]].r > TOL => Bounded(min, ExtentOf(a), 2)

\* C6 as stated: the minimum is below every point and, on X and Y, below
\* the extent center - radius of every arc.
C6_MinimumBelowEveryExtent == MinimumBelowEveryExtent(PartMinimum)

\* C6, amended: the minimum is below every point and, on X and Y, below
\* the extent center - radius of every arc whose radius is more than
\* 0.001.
C6_MinimumBelowExtents == MinimumBelowExtents(PartMinimum)

\* The extent of an arc of radius 5.003 is the minimum on Y, below every
\* point of the contours.
C6_Witness ==
    /\ \E a \in StoredArcs :
          /\ contours[a[1]].elements[a[2]].r = 15009
          /\ ExtentOf(a)[2] = PartMinimum[2]
    /\ \A e \in StoredElements : contours[e[1]].elements[e[2]].y > PartMinimum[2]

\* An arc without center offset: I = J = 0, and an end point away from its
\* start.
Degenerate(a) ==
    /\ contours[a[1]].elements[a[2]].i = 0
    /\ contours[a[1]].elements[a[2]].j = 0
    /\ <<contours[a[1]].elements[a[2]].x, contours[a[1]].elements[a[2]].y>>
          # <<P0(contours[a[1]], a[2])[1], P0(contours[a[1]], a[2])[2]>>

\* C8 as stated: the output shows no arc record for an arc with I = J = 0
\* and an end point away from its start.
C8_DegenerateArcDropped ==
    Done =>
        \A a \in StoredArcs :
            Degenerate(a) => ArcRecords(contours[a[1]], a[2]) = {}

\* An arc with I = J = 0 from (2, 1) to (6, 1) has been written as an arc
\* record of radius 2.
C8_Witness ==
    /\ Done
    /\ \E a \in StoredArcs :
          /\ Degenerate(a)
          /\ \E k \in ArcRecords(contours[a[1]], a[2]) : Mpr[k].R = 2 * MM

\* No object of the call has commands.
EmptyInput ==
    \A k \in 1..Len(objectslist) :
        ~objectslist[k].hasPath \/ objectslist[k].Commands = <<>>

ObjectLists == UNION {[1..n -> Objects] : n \in 1..MaxObjs}

SerOffsets == {<<0, 0, 0>>, <<MM, 2 * MM, 0>>, <<1, -2, 5>>}

\* Changes of the X offset: 1/3000, 0.001, 0.01 and 1 mm, and -1.5 mm
Shifts == {1, TOL, 10 * TOL, MM, -(MM + MM \div 2)}

\* The state after the objects objs were processed into t, with the offset
\* off in force (under a coordinate system, when off is not zero) and p
\* decimals.
Stored(objs, t, off, p) ==
    /\ objectslist = objs
    /\ contour_counter = t.contour_counter
    /\ contours = t.contours
    /\ operations = t.operations
    /\ tools_used = t.tools_used
    /\ COORDINATE_SYSTEM = (IF off = <<0, 0, 0>> THEN "" ELSE "G54")
    /\ COORDINATE_OFFSET_X = off[1]
    /\ COORDINATE_OFFSET_Y = off[2]
    /\ COORDINATE_OFFSET_Z = off[3]
    /\ PRECISION = p
    /\ OUTPUT_COMMENTS = TRUE
    /\ ENABLE_VERBOSE_LOGGING = FALSE
    /\ ENABLE_JOB_REPORT = FALSE
    /\ OUTPUT_NC_FILE = FALSE
    /\ ENABLE_NO_Z_SAFE20 = FALSE
    /\ pc = "idle"
    /\ argstring = <<>>
    /\ job = <<>>
    /\ result = <<>>
    /\ calls = "fresh"
    /\ renderer = "unused"

InitSer ==
    /\ NoNorm
    /\ NoSer
    /\ \E objs \in ObjectLists, off \in SerOffsets, p \in {2, 3} :
          Stored(objs, DerivedFrom(ResetGlobals, objs), off, p)

\* generate_mpr_content under the stored offset moved by d on X.
SerializedAt(d) ==
    generate_mpr_content(
        Globals(contours, operations, PRECISION, OUTPUT_COMMENTS, COORDINATE_SYSTEM,
                <<COORDINATE_OFFSET_X + d, COORDINATE_OFFSET_Y, COORDINATE_OFFSET_Z>>),
        20 * MM)

Reserialize(d) ==
    /\ shifted = <<>>
    /\ result' = <<<<"mpr", SerializedAt(0)>>>>
    /\ shifted' = SerializedAt(d)
    /\ shift' = d
    /\ UNCHANGED <<pc, argstring, job, objectslist, calls, renderer>>
    /\ UNCHANGED <<trackingVars, offsetVars, settingVars, flagVars, normVars>>

NextSer == \E d \in Shifts : Reserialize(d)

SpecSer == InitSer /\ [][NextSer]_vars

\* Block k of the two outputs: the same kind, every X (the X of a start
\* point, a line or an arc, the .I of an arc, the XA of a drill) moved by
\* shift, and every Y, Z, radius, direction code and angle the same.
ShiftedBlock(k) ==
    /\ shifted[k].kind = Mpr[k].kind
    /\ Mpr[k].kind \in {"KP", "KL", "KA"}
          => /\ shifted[k].X = Mpr[k].X + shift
             /\ shifted[k].Y = Mpr[k].Y
             /\ shifted[k].Z = Mpr[k].Z
    /\ Mpr[k].kind = "KL"
          => /\ shifted[k].WI = Mpr[k].WI
             /\ shifted[k].WZ = Mpr[k].WZ
    /\ Mpr[k].kind = "KA"
          => /\ shifted[k].I = Mpr[k].I + shift
             /\ shifted[k].J = Mpr[k].J
             /\ shifted[k].R = Mpr[k].R
             /\ shifted[k].DS = Mpr[k].DS
             /\ shifted[k].WI = Mpr[k].WI
             /\ shifted[k].WO = Mpr[k].WO
    /\ Mpr[k].kind = "BohrVert"
          => /\ shifted[k].XA = Mpr[k].XA + shift
             /\ shifted[k].YA = Mpr[k].YA
             /\ shifted[k].TI = Mpr[k].TI

Serializing == pc = "run" /\ pc' = "idle"

\* C11: the step in which generate_mpr_content runs, under any offset,
\* leaves every contour (its start_pos and the x, y, z, i, j, r and
\* direction of its elements) and every operation as they were.
C11_SerializationKeepsStore ==
    [][Serializing => contours' = contours /\ operations' = operations]_vars

\* A call has serialized an arc and a drill under an offset that is not
\* zero on any axis, and the store still holds what extraction produced.
C11_Witness ==
    /\ Done
    /\ COORDINATE_OFFSET_X # 0 /\ COORDINATE_OFFSET_Y # 0 /\ COORDINATE_OFFSET_Z # 0
    /\ StoredArcs # {}
    /\ \E k \in 1..Len(operations) : operations[k].type = "BohrVert"
    /\ HoldsOnly(OwnGeometry)

\* The point records (KP, KL, KA) of an output for element n of contour
\* c, n = 0 being its start point.
PointRecordsIn(text, c, n) ==
    {k \in 1..Len(text) :
        text[k].kind \in {"KP", "KL", "KA"} /\ text[k].contour = c.id /\ text[k].n = n}

PointRecords(c, n) == PointRecordsIn(Mpr, c, n)

\* The stored point n of contour c: its start position for n = 0.
StoredPoint(c, n) == P0(c, n + 1)

\* The start points and elements of the stored contours, as pairs
\* <<contour index, element number>>.
StoredPoints ==
    UNION {{<<c, n>> : n \in 0..Len(contours[c].elements)} : c \in 1..Len(contours)}

\* The call asked for Z without offset.
ZPassthroughRequested == HasArg(argstring, "no-z-offset")

\* Every point is written with the offset on X and Y, and with zoff on Z.
WrittenWithZOffset(zoff) ==
    \A e \in StoredPoints :
        /\ PointRecords(contours[e[1]], e[2]) # {}
        /\ \A k \in PointRecords(contours[e[1]], e[2]) :
              /\ Mpr[k].X = fmt(StoredPoint(contours[e[1]], e[2])[1]
                                + COORDINATE_OFFSET_X, MM, PRECISION)
              /\ Mpr[k].Y = fmt(StoredPoint(contours[e[1]], e[2])[2]
                                + COORDINATE_OFFSET_Y, MM, PRECISION)
              /\ Mpr[k].Z = fmt(StoredPoint(contours[e[1]], e[2])[3] + zoff,
                                MM, PRECISION)

\* C12 as stated: when Z without offset is requested every Z of the output
\* is the stored Z, X and Y carrying the offset; without the request the
\* offset is added on all three axes.
C12_ZPassthrough ==
    Done => WrittenWithZOffset(IF ZPassthroughRequested THEN 0
                               ELSE COORDINATE_OFFSET_Z)

\* What the code does: the offset is added on all three axes, requested
\* or not.
C12_OffsetOnAllAxes == Done => WrittenWithZOffset(COORDINATE_OFFSET_Z)

\* A call that asked for Z without offset has written a contour under an
\* offset that is not zero on Z.
C12_Witness ==
    /\ Done
    /\ ZPassthroughRequested
    /\ COORDINATE_OFFSET_Z # 0
    /\ contours # <<>>
    /\ WrittenWithZOffset(COORDINATE_OFFSET_Z)

C13_NonTextRaises ==
    [][pc = "run" /\ pc' # "run" /\ result' = <<>> => pc' = "raised"]_vars

Nc == result[2][2]

RECURSIVE CommandsInOrder(_)
\* The commands of the objects with a Path, object after object.
CommandsInOrder(objs) ==
    IF objs = <<>> THEN <<>>
    ELSE (IF Head(objs).hasPath THEN Head(objs).Commands ELSE <<>>)
         \o CommandsInOrder(Tail(objs))

\* The lines of text between the header and M2 that are commands.
CommandLines(lines) ==
    SelectSeq(SubSeq(lines, Len(Preamble) + 1, Len(lines) - 2),
              LAMBDA l : l.Name \notin {"(Operation", "(End operation)", ""})

\* lines are one line for each of cmds, in their order, each with the name
\* of its command and a word for each of its parameters.
OneLinePerCommand(lines, cmds) ==
    /\ Len(lines) = Len(cmds)
    /\ \A k \in 1..Len(lines) :
          /\ lines[k].Name = cmds[k].Name
          /\ \A w \in cmds[k].Parameters :
                <<w[1], fmt(w[2], MM, PRECISION)>> \in lines[k].Parameters

\* text is the fallback for the objects objs.
IsFallbackFor(text, objs) ==
    /\ text.source = "fallback"
    /\ Len(text.lines) >= Len(Preamble) + 2
    /\ SubSeq(text.lines, 1, Len(Preamble)) = Preamble
    /\ text.lines[Len(text.lines) - 1].Name = "M2"
    /\ OneLinePerCommand(CommandLines(text.lines), CommandsInOrder(objs))

\* C14: when woodwop_gcode_post.export raises or returns a bool, a value
\* that is no string or an empty value, the call still returns, and its
\* "nc" text is the fallback: the header, one line for each command of
\* the objects in their order, and M2.
C14_FallbackOnFailure ==
    OUTPUT_NC_FILE /\ renderer \in ExternalOutcomes \ {"text"}
       => /\ pc = "idle"
          /\ Len(result) = 2
          /\ result[2][1] = "nc"
          /\ IsFallbackFor(Nc, objectslist)

\* After woodwop_gcode_post.export returned a bool, a call of two objects
\* with commands has returned the fallback, nine lines of it commands.
C14_Witness ==
    /\ Done
    /\ OUTPUT_NC_FILE
    /\ renderer = "bool"
    /\ Len(objectslist) = 2
    /\ Len(CommandsInOrder(objectslist)) = 7
    /\ IsFallbackFor(Nc, objectslist)

\* The outputs of the same call under the other selection of the
\* coordinate system.
OtherMpr == shifted[1][2]

OtherNc == shifted[2][2]

\* Every point of text is the stored point plus off, written with
\* PRECISION decimals.
WrittenUnder(text, off) ==
    \A e \in StoredPoints :
        /\ PointRecordsIn(text, contours[e[1]], e[2]) # {}
        /\ \A k \in PointRecordsIn(text, contours[e[1]], e[2]) :
              \A a \in 1..3 :
                 <<text[k].X, text[k].Y, text[k].Z>>[a]
                    = fmt(StoredPoint(contours[e[1]], e[2])[a] + off[a], MM, PRECISION)

\* C15: two exports of the same objects that differ in the selection of
\* the coordinate system alone return the same G-code, while each MPR
\* text carries the offset of its own export on every point.
C15_GcodeWithoutOffset ==
    shifted # <<>>
       => /\ OtherNc = Nc
          /\ WrittenUnder(Mpr, <<COORDINATE_OFFSET_X, COORDINATE_OFFSET_Y,
                                 COORDINATE_OFFSET_Z>>)
          /\ WrittenUnder(OtherMpr,
                          CoordinateOffset(OtherSystem, job, contours, operations))

\* The fallback was written for a contour twice, without coordinate system
\* and with G54; the G-code is the same and the start points of the two
\* MPR texts differ.
C15_Witness ==
    /\ shifted # <<>>
    /\ renderer = "raise"
    /\ COORDINATE_SYSTEM = ""
    /\ contours # <<>>
    /\ OtherNc = Nc
    /\ Len(Nc.lines) > Len(Preamble) + 2
    /\ \E k \in 1..Len(Mpr) :
          Mpr[k].kind = "KP" /\ OtherMpr[k].kind = "KP" /\ OtherMpr[k].Z # Mpr[k].Z

(***************************************************************************)
(* Properties of the offset and of the flags                               *)
(***************************************************************************)
\* The offset of the last finished call.
Offset == <<COORDINATE_OFFSET_X, COORDINATE_OFFSET_Y, COORDINATE_OFFSET_Z>>

\* C16 as stated: the offset of a finished call is (0, 0, 0) without a
\* coordinate system and minus the result of calculate_part_minimum over
\* the contours and operations of the call with one.
C16_OffsetFromMinimum ==
    Done => Offset = (IF COORDINATE_SYSTEM = "" THEN <<0, 0, 0>>
                      ELSE Negated(PartMinimum))

\* C16, amended: with a coordinate system the offset is minus the minimum
\* corner of the bounding box of the Job's Model or Base when the Job has
\* one, and minus the result of calculate_part_minimum otherwise.
C16_OffsetFromBoxOrMinimum ==
    Done => Offset = (IF COORDINATE_SYSTEM = "" THEN <<0, 0, 0>>
                      ELSE IF BoundBoxMinimum(job) # <<>>
                      THEN Negated(BoundBoxMinimum(job))
                      ELSE Negated(PartMinimum))

\* A call under a coordinate system and without a bounding box has ended
\* with minus the minimum of its contours, which is not zero, as offset.
C16_Witness ==
    /\ Done
    /\ COORDINATE_SYSTEM # ""
    /\ BoundBoxMinimum(job) = <<>>
    /\ contours # <<>>
    /\ Offset # <<0, 0, 0>>
    /\ Offset = Negated(PartMinimum)

\* C17: once a call has parsed its arguments, ENABLE_JOB_REPORT is true
\* exactly when the argument string holds the report flag; no other flag
\* turns it on.
C17_ReportFlagOnly ==
    calls # "fresh" => (ENABLE_JOB_REPORT <=> HasArg(argstring, "report"))

\* The half of C17 that the code keeps: the report flag turns the report
\* on, and a call without the report flag and without /no_z_safe20 leaves
\* it off, whatever the calls before it were given.
C17_ReportFlagOrNoZSafe ==
    calls # "fresh" =>
        (ENABLE_JOB_REPORT <=> (HasArg(argstring, "report")
                                \/ HasArg(argstring, "no_z_safe20")))

\* A later call given /no_z_safe20 and no report flag has ended with the
\* report turned on.
C17_Witness ==
    /\ Done
    /\ calls = "later"
    /\ HasArg(argstring, "no_z_safe20")
    /\ ~HasArg(argstring, "report")
    /\ ENABLE_JOB_REPORT

(***************************************************************************)
(* get_operation_type alone                                                *)
(*                                                                         *)
(* objectslist holds the one object handed to get_operation_type and       *)
(* result, once the function has returned, <<its value>>.  The objects are *)
(* those with and without a Proxy.Type, with every set of the four words   *)
(* in it, with and without a Path, and with every sequence of at most      *)
(* MaxTyped commands of the names of TypedNames.                           *)
(***************************************************************************)
\* The largest number of commands of a classified object.
MaxTyped == 3

TypedNames == {"G1", "G2", "G03", "G81", "G83"}

TypedKinds == {<<>>} \cup {<<words>> : words \in SUBSET {"profile", "contour", "drill", "pocket"}}

TypedCommands == UNION {[1..n -> {Cmd(name, {}) : name \in TypedNames}] : n \in 0..MaxTyped}

TypedObjects ==
    {[Obj("Op", kind, {}, cmds) EXCEPT !.hasPath = path] :
        kind \in TypedKinds, cmds \in TypedCommands, path \in BOOLEAN}

InitType ==
    /\ ModuleGlobals /\ NoNorm /\ NoSer
    /\ pc = "idle"
    /\ argstring = <<>>
    /\ job = <<>>
    /\ result = <<>>
    /\ calls = "fresh"
    /\ renderer = "unused"
    /\ \E obj \in TypedObjects : objectslist = <<obj>>

\* op_type = get_operation_type(obj)
Classify ==
    /\ result = <<>>
    /\ result' = <<get_operation_type(objectslist[1])>>
    /\ UNCHANGED <<pc, argstring, job, objectslist, calls, renderer>>
    /\ UNCHANGED <<trackingVars, offsetVars, settingVars, flagVars, normVars, serVars>>

NextType == Classify

SpecType == InitType /\ [][NextType]_vars

\* The words of the declared kind of the classified object.
KindWords == IF objectslist[1].ProxyType = <<>> THEN {} ELSE objectslist[1].ProxyType[1]

\* The names of the commands the classifier can inspect.
InspectedNames ==
    IF objectslist[1].hasPath
    THEN {objectslist[1].Commands[k].Name : k \in 1..Len(objectslist[1].Commands)}
    ELSE {}

\* C18: the classifier returns profile for a kind that mentions profile or
\* contour, else drilling for one that mentions drill, else pocket for one
\* that mentions pocket; for any other object it returns drilling when a
\* command is a drill cycle (G81, G82, G83), else profile when a command
\* is an arc (G2, G02, G3, G03), else contour.
C18_Classifier ==
    result # <<>> =>
        /\ KindWords \cap {"profile", "contour"} # {} => result[1] = "profile"
        /\ KindWords \cap {"profile", "contour"} = {} /\ "drill" \in KindWords
               => result[1] = "drilling"
        /\ KindWords = {"pocket"} => result[1] = "pocket"
        /\ KindWords = {} /\ InspectedNames \cap {"G81", "G82", "G83"} # {}
               => result[1] = "drilling"
        /\ (/\ KindWords = {}
            /\ InspectedNames \cap {"G81", "G82", "G83"} = {}
            /\ InspectedNames \cap {"G2", "G02", "G3", "G03"} # {})
               => result[1] = "profile"
        /\ KindWords = {} /\ InspectedNames \cap (DrillNames \cup ArcNames) = {}
               => result[1] = "contour"

\* An object without a declared kind whose commands are an arc and then a
\* drill cycle has been classified as drilling.
C18_Witness ==
    /\ result = <<"drilling">>
    /\ objectslist[1].ProxyType = <<>>
    /\ Len(objectslist[1].Commands) = 3
    /\ objectslist[1].Commands[1].Name = "G03"
    /\ objectslist[1].Commands[2].Name = "G1"
    /\ objectslist[1].Commands[3].Name = "G83"

(***************************************************************************)
(* The serializer on one arc                                               *)
(*                                                                         *)
(* The stored model is that of one object: a rapid move to a point of a    *)
(* circle of radius 5 mm around the origin and an arc, G2 or G3, around    *)
(* the origin to another point of the circle.  The step is                 *)
(* generate_mpr_content under the stored offset.                           *)
(***************************************************************************)
\* Twelve points of the circle, in mm.
CirclePoints ==
    { <<5, 0>>, <<4, 3>>, <<3, 4>>, <<0, 5>>, <<-3, 4>>, <<-4, 3>>,
      <<-5, 0>>, <<-4, -3>>, <<-3, -4>>, <<0, -5>>, <<3, -4>>, <<4, -3>> }

ArcObject(name, from, to) ==
    Obj("Arc", <<{"profile"}>>, {5},
        <<G("G0", from[1] * MM, from[2] * MM, 0),
          GA(name, to[1] * MM, to[2] * MM, 0, -from[1] * MM, -from[2] * MM)>>)

\* Arcs whose end point is not on the circle of their start point: with
\* a radius of 1/3000 mm, with an end 1 mm off the circle, with an end
\* 0.00067 mm away from a point of the circle, without I and J, with an
\* end 0.002 mm short of the half turn, and with an end 0.00067 mm beyond
\* it; and two full circles that go down 1 mm.
SkewCommands ==
    { <<GA("G2", 0, 4 * MM, 0, 1, 0)>>,
      <<G("G0", 5 * MM, 0, 0), GA("G3", 0, 6 * MM, 0, -5 * MM, 0)>>,
      <<G("G0", 5 * MM, 0, 0), GA("G3", 2, 5 * MM, 0, -5 * MM, 0)>>,
      <<G("G0", 2 * MM, MM, 0), Cmd("G2", {<<"X", 6 * MM>>, <<"Y", 4 * MM>>})>>,
      <<G("G0", 5 * MM, 0, 0), GA("G3", -5 * MM + 6, 0, 0, -5 * MM, 0)>>,
      <<G("G0", 5 * MM, 0, 0), GA("G3", -5 * MM - 2, 0, 0, -5 * MM, 0)>>,
      <<G("G0", 5 * MM, 0, 0), GA("G3", 5 * MM, 0, -MM, -5 * MM, 0)>>,
      <<G("G0", 0, 5 * MM, 0), GA("G2", 0, 5 * MM, -MM, 0, -5 * MM)>> }

ArcObjects ==
    {ArcObject(name, from, to) :
        name \in {"G2", "G3"}, from \in CirclePoints, to \in CirclePoints}
    \cup {Obj("Arc", <<{"profile"}>>, {5}, cmds) : cmds \in SkewCommands}

ArcOffsets == {<<0, 0, 0>>, <<MM, 2 * MM, 0>>}

InitArc ==
    /\ NoNorm
    /\ NoSer
    /\ \E obj \in ArcObjects, off \in ArcOffsets :
          Stored(<<obj>>, DerivedFrom(ResetGlobals, <<obj>>), off, 3)

SerializeArc ==
    /\ result = <<>>
    /\ result' = <<<<"mpr", SerializedAt(0)>>>>
    /\ UNCHANGED <<pc, argstring, job, objectslist, calls, renderer>>
    /\ UNCHANGED <<trackingVars, offsetVars, settingVars, flagVars, normVars, serVars>>

NextArc == SerializeArc

SpecArc == InitArc /\ [][NextArc]_vars

\* The end angle after the step that depends on the direction.
DirectedEnd(direction, start, end) ==
    IF direction = "CCW" /\ end < start THEN end + 2 * PI
    ELSE IF direction = "CW" /\ end > start THEN end - 2 * PI
    ELSE end

\* The two bits: 2 for a large arc, 1 for a counter-clockwise one.
TwoBits(direction, sweep) ==
    (IF sweep <= PI THEN 0 ELSE 2) + (IF direction = "CCW" THEN 1 ELSE 0)

\* The code of an arc of the given direction from the point from to the
\* point to around center.
CodeAround(direction, from, to, center) ==
    TwoBits(direction,
            Abs(DirectedEnd(direction,
                            Atan2(from[2] - center[2], from[1] - center[1]),
                            Atan2(to[2] - center[2], to[1] - center[1]))
                - Atan2(from[2] - center[2], from[1] - center[1])))

\* The code of element n of contour c, a stored arc: its points and its
\* center are the stored ones moved by the offset.
CodeOf(c, n) ==
    CodeAround(c.elements[n].direction,
               <<P0(c, n)[1] + COORDINATE_OFFSET_X, P0(c, n)[2] + COORDINATE_OFFSET_Y>>,
               <<c.elements[n].x + COORDINATE_OFFSET_X,
                 c.elements[n].y + COORDINATE_OFFSET_Y>>,
               <<P0(c, n)[1] + c.elements[n].i + COORDINATE_OFFSET_X,
                 P0(c, n)[2] + c.elements[n].j + COORDINATE_OFFSET_Y>>)

\* C19: every arc record of the output has as DS the two bits of its
\* direction and its size: 0 clockwise small, 1 counter-clockwise small,
\* 2 clockwise large, 3 counter-clockwise large, the size being that of
\* the sweep between the start angle and the end angle moved by a turn
\* to the side of the direction, small up to pi inclusive; the DS of the
\* calculated record is the DS of the main one.
C19_DirectionCode ==
    Done =>
        \A a \in StoredArcs :
            \A k \in ArcRecords(contours[a[1]], a[2]) :
                /\ Mpr[k].DS = CodeOf(contours[a[1]], a[2])
                /\ Mpr[k].dotDS = Mpr[k].DS

\* Under an offset, a counter-clockwise arc of three quarters of a turn,
\* from (5, 0) to (0, -5), has been written with DS=3.
C19_Witness ==
    /\ Done
    /\ COORDINATE_OFFSET_X # 0
    /\ \E a \in StoredArcs :
          /\ P0(contours[a[1]], a[2]) = <<5 * MM, 0, 0>>
          /\ contours[a[1]].elements[a[2]].direction = "CCW"
          /\ contours[a[1]].elements[a[2]].x = 0
          /\ contours[a[1]].elements[a[2]].y = -5 * MM
          /\ \E k \in ArcRecords(contours[a[1]], a[2]) :
                Mpr[k].DS = 3 /\ Mpr[k].dotDS = 3

(***************************************************************************)
(* Arcs that change Z                                                      *)
(***************************************************************************)
\* cmd, met at the cursor of st, is an arc that changes Z by more than the
\* tolerance.
IsHelix(st, cmd) ==
    /\ cmd.Name \in {"G2", "G02", "G3", "G03"}
    /\ Abs(Get(cmd.Parameters, "Z", st.current_z) - st.current_z) > TOL

\* The sweep of the arc cmd met at the cursor of st, from the angle of the
\* cursor to the angle of the end point, both seen from the center, the
\* end angle moved by a turn to the side of the direction.
HelixSweep(st, cmd, direction, center) ==
    Abs(DirectedEnd(direction,
                    Atan2(st.current_y - center[2], st.current_x - center[1]),
                    Atan2(Get(cmd.Parameters, "Y", st.current_y) - center[2],
                          Get(cmd.Parameters, "X", st.current_x) - center[1]))
        - Atan2(st.current_y - center[2], st.current_x - center[1]))

HelixSweepOf(st, cmd) ==
    HelixSweep(st, cmd, IF cmd.Name \in {"G2", "G02"} THEN "CW" ELSE "CCW",
               <<st.current_x + Get(cmd.Parameters, "I", 0),
                 st.current_y + Get(cmd.Parameters, "J", 0)>>)

\* elems is the elements of st and then n Lines whose Z goes from z0 to
\* z1 in equal steps (to half a length unit), the last one at z1.
Discretized(st, elems, n, z0, z1) ==
    /\ Len(elems) = Len(st.elements) + n
    /\ \A k \in 1..n :
          /\ elems[Len(st.elements) + k].type = "KL"
          /\ 2 * Abs(n * (elems[Len(st.elements) + k].z - z0) - (z1 - z0) * k) <= n
    /\ elems[Len(elems)].z = z1
    /\ SubSeq(elems, 1, Len(st.elements)) = st.elements

\* A step of the normalizer over an arc that changes Z appends n(sweep)
\* Lines with Z in equal steps.
HelixInto(sweep36, floored) ==
    \A cmd \in NormCommands :
        path_commands' = Append(path_commands, cmd) /\ IsHelix(norm, cmd)
           => Discretized(norm, norm'.elements,
                          Max2(8, IF floored THEN sweep36[cmd] \div PI
                                  ELSE RoundDiv(sweep36[cmd], PI)),
                          norm.current_z, Get(cmd.Parameters, "Z", norm.current_z))

\* 36 times the sweep of every command at the cursor: the sweep in degrees
\* over 5 is this over pi.
Sweep36 == [cmd \in NormCommands |-> IF IsHelix(norm, cmd) THEN 36 * HelixSweepOf(norm, cmd) ELSE 0]

\* C20 as stated: an arc command that changes Z by more than 0.001 becomes
\* exactly max(8, round(sweep in degrees / 5)) Lines, the k-th of n at
\* z_start + (z_end - z_start) * k / n and the last at the commanded Z.
C20_HelixRounded == [][HelixInto(Sweep36, FALSE)]_vars

\* C20, amended: the number of Lines is max(8, the integer part of (sweep
\* in degrees / 5)).
C20_HelixTruncated == [][HelixInto(Sweep36, TRUE)]_vars

\* The last command is an arc that changes Z, with a sweep of 198.4
\* degrees: it has become 39 Lines, and not 40, the last at the commanded
\* Z and the first a thirty-ninth of the way down.
C20_Witness ==
    /\ Len(path_commands) = 4
    /\ path_commands[4].Name = "G3"
    /\ Abs(ResolvedAt(4)[3] - cursor_log[4][3]) > TOL
    /\ cursor_log[4] = <<20 * MM, 10 * MM, 0>>
    /\ Len(norm.elements) = 3 + 39
    /\ norm.elements[42].z = -MM
    /\ norm.elements[4].z = -77
    /\ norm.elements[4].type = "KL"

(***************************************************************************)
(* Rapid and linear moves                                                  *)
(***************************************************************************)
\* The position cmd resolves to at the cursor of st.
ResolvedFrom(st, cmd) ==
    <<Get(cmd.Parameters, "X", st.current_x), Get(cmd.Parameters, "Y", st.current_y),
      Get(cmd.Parameters, "Z", st.current_z)>>

\* The largest displacement of cmd from the cursor of st on an axis.
Displacement(st, to) ==
    Max2(Abs(to[1] - st.current_x),
         Max2(Abs(to[2] - st.current_y), Abs(to[3] - st.current_z)))

\* elems is before and then one Line to the point to.
LineAdded(before, elems, to) ==
    /\ Len(elems) = Len(before) + 1
    /\ SubSeq(elems, 1, Len(before)) = before
    /\ elems[Len(elems)].type = "KL"
    /\ <<elems[Len(elems)].x, elems[Len(elems)].y, elems[Len(elems)].z>> = to

\* A step over a rapid or linear move appends a Line to the resolved
\* position when the displacement is at least least, and nothing
\* otherwise.
MoveEmitsFrom(least) ==
    \A cmd \in NormCommands :
        (/\ path_commands' = Append(path_commands, cmd)
         /\ cmd.Name \in {"G0", "G00", "G1", "G01"})
           => IF Displacement(norm, ResolvedFrom(norm, cmd)) >= least
              THEN LineAdded(norm.elements, norm'.elements, ResolvedFrom(norm, cmd))
              ELSE norm'.elements = norm.elements

\* C21 as stated: a rapid or linear move emits a Line exactly when its
\* displacement from the cursor exceeds 0.001 on an axis, so that a
\* displacement of exactly 0.001 emits nothing; the Line has the resolved
\* position, a missing axis letter taking the cursor's value.
C21_LineBeyondTolerance == [][MoveEmitsFrom(TOL + 1)]_vars

\* C21, amended: the Line is emitted exactly when the displacement is at
\* least 0.001 on an axis.
C21_LineFromTolerance == [][MoveEmitsFrom(TOL)]_vars

\* G01 X0.001 met at the cursor (0, 5, -1) has moved by exactly 0.001 on X
\* and has appended the Line to (0.001, 5, -1).
C21_Witness ==
    /\ Len(path_commands) >= 2
    /\ path_commands[Len(path_commands)] = Cmd("G01", {<<"X", TOL>>})
    /\ cursor_log[Len(path_commands)] = <<0, 5 * MM, -MM>>
    /\ norm.elements # <<>>
    /\ norm.elements[Len(norm.elements)].type = "KL"
    /\ norm.elements[Len(norm.elements)].x = TOL
    /\ norm.elements[Len(norm.elements)].y = 5 * MM
    /\ norm.elements[Len(norm.elements)].z = -MM

(***************************************************************************)
(* Contours and operations                                                 *)
(***************************************************************************)
\* C22: during and after a call the contours have the ids 1, 2, ..., n in
\* the order of their creation, and contour_counter - 1 is the number of
\* contours, also when a profile or pocket operation yielded no element.
C22_SequentialIds ==
    pc = "run" \/ Done =>
        /\ \A k \in 1..Len(contours) : contours[k].id = k
        /\ contour_counter - 1 = Len(contours)

\* What the code keeps of C22: the ids grow strictly in list order and stay
\* below contour_counter.
C22_GrowingIds ==
    pc = "run" \/ Done =>
        /\ \A k \in 1..Len(contours) : contours[k].id >= k /\ contours[k].id < contour_counter
        /\ \A k \in 1..(Len(contours) - 1) : contours[k].id < contours[k + 1].id

\* A call has processed an operation that yielded no element and then one
\* that yielded a contour: the only contour has the id 2 and
\* contour_counter is 3.
C22_Witness ==
    /\ Done
    /\ Len(objectslist) = 2
    /\ objectslist[1].Label = "Dwell"
    /\ Len(contours) = 1
    /\ contours[1].id = 2
    /\ contour_counter = 3

(***************************************************************************)
(* The radius of an arc                                                    *)
(***************************************************************************)
\* The sweep of an arc of the given direction from the point from to the
\* point to around center.
SweepAround(direction, from, to, center) ==
    Abs(DirectedEnd(direction,
                    Atan2(from[2] - center[2], from[1] - center[1]),
                    Atan2(to[2] - center[2], to[1] - center[1]))
        - Atan2(from[2] - center[2], from[1] - center[1]))

\* The point element n of contour c starts from, its end point and its
\* center, as the serializer takes them.
ArcFrom(c, n) == <<P0(c, n)[1], P0(c, n)[2]>>

ArcTo(c, n) == <<c.elements[n].x, c.elements[n].y>>

ArcCenter(c, n) == <<P0(c, n)[1] + c.elements[n].i, P0(c, n)[2] + c.elements[n].j>>

\* The stored arc a is not within 0.001 rad of a half turn.
AwayFrom180(c, n) ==
    Abs(SweepAround(c.elements[n].direction, ArcFrom(c, n), ArcTo(c, n), ArcCenter(c, n))
        - PI) >= RAD \div 1000

\* The R of every arc record away from a half turn is the radius resolved
\* from r, d0 and d1 when that is above 0.001, mean being what stands for
\* an absent radius.
RadiusResolvedAs(r, d0, d1, mean, written) ==
    LET resolved == IF r <= TOL THEN mean
                    ELSE IF Abs(r - d0) <= TOL /\ Abs(r - d1) <= TOL THEN r
                    ELSE RoundDiv(d0 + d1, 2)
    IN  resolved > TOL => written = fmt(resolved, MM, PRECISION)

\* C23 as stated: the radius resolved before the guard is the geometric
\* mean of the distances of the two end points from the center when the
\* declared radius is at most 0.001, the declared radius when it is within
\* 0.001 of both distances, and their average otherwise.
C23_GeometricMean ==
    Done =>
        \A a \in StoredArcs :
            \A k \in ArcRecords(contours[a[1]], a[2]) :
                AwayFrom180(contours[a[1]], a[2]) =>
                    RadiusResolvedAs(contours[a[1]].elements[a[2]].r,
                        Distance(ArcCenter(contours[a[1]], a[2]), ArcFrom(contours[a[1]], a[2])),
                        Distance(ArcCenter(contours[a[1]], a[2]), ArcTo(contours[a[1]], a[2])),
                        Sqrt(Distance(ArcCenter(contours[a[1]], a[2]), ArcFrom(contours[a[1]], a[2]))
                             * Distance(ArcCenter(contours[a[1]], a[2]), ArcTo(contours[a[1]], a[2]))),
                        Mpr[k].R)

\* C23, amended: for a declared radius of at most 0.001 it is the average
\* of the two distances.
C23_Average ==
    Done =>
        \A a \in StoredArcs :
            \A k \in ArcRecords(contours[a[1]], a[2]) :
                AwayFrom180(contours[a[1]], a[2]) =>
                    RadiusResolvedAs(contours[a[1]].elements[a[2]].r,
                        Distance(ArcCenter(contours[a[1]], a[2]), ArcFrom(contours[a[1]], a[2])),
                        Distance(ArcCenter(contours[a[1]], a[2]), ArcTo(contours[a[1]], a[2])),
                        RoundDiv(Distance(ArcCenter(contours[a[1]], a[2]), ArcFrom(contours[a[1]], a[2]))
                                 + Distance(ArcCenter(contours[a[1]], a[2]), ArcTo(contours[a[1]], a[2])), 2),
                        Mpr[k].R)

\* The arc of radius 1/3000 mm from the origin to (0, 4) has been written
\* with R=2.000, the average of its two distances 0.000333 and 4.000000,
\* and the arc of declared radius 5 that ends 6 mm from its center with
\* R=5.500.
C23_Witness ==
    /\ Done
    /\ contours # <<>>
    /\ \E k \in 1..Len(Mpr) :
          /\ Mpr[k].kind = "KA"
          /\ \/ contours[1].elements[1].type = "KA"
                /\ contours[1].elements[1].r = 1
                /\ Mpr[k].R = 2 * MM
             \/ Len(contours[1].elements) = 2
                /\ contours[1].elements[2].type = "KA"
                /\ contours[1].elements[2].r = 5 * MM
                /\ contours[1].elements[2].y = 6 * MM
                /\ Mpr[k].R = 5 * MM + MM \div 2

(***************************************************************************)
(* The guard of the half turn                                              *)
(***************************************************************************)
\* The radius of element n of contour c before the guard.
BeforeGuard(c, n) ==
    ResolvedBeforeGuard(c.elements[n].r,
                        Distance(ArcCenter(c, n), ArcFrom(c, n)),
                        Distance(ArcCenter(c, n), ArcTo(c, n)))

\* The chord of element n of contour c.
Chord(c, n) == Distance(ArcFrom(c, n), ArcTo(c, n))

\* Every arc within 0.001 rad of a half turn whose radius r before the
\* guard is at least least(chord) is written with R = r, and every other
\* one with R = chord/2 + 0.001.
GuardRaisesBelow(least(_)) ==
    Done =>
        \A a \in StoredArcs :
            ~AwayFrom180(contours[a[1]], a[2]) =>
                /\ ArcRecords(contours[a[1]], a[2]) # {}
                /\ \A k \in ArcRecords(contours[a[1]], a[2]) :
                      Mpr[k].R =
                          IF BeforeGuard(contours[a[1]], a[2]) >= least(Chord(contours[a[1]], a[2]))
                          THEN fmt(BeforeGuard(contours[a[1]], a[2]), MM, PRECISION)
                          ELSE fmt(RoundDiv(Chord(contours[a[1]], a[2]), 2) + TOL, MM, PRECISION)

\* Half the chord, rounded up.
HalfChord(chord) == (chord + 1) \div 2

\* C24 as stated: the guard raises the radius only when the chord exceeds
\* twice it; an arc of about a half turn with chord <= 2r, the exact half
\* circle among them, is written with r unchanged, and one with
\* chord > 2r is written, raised to chord/2 + 0.001.
C24_RaisedOnlyBeyondChord == GuardRaisesBelow(HalfChord)

\* C24, amended: the radius is raised whenever it is below
\* chord/2 + 0.001.
C24_RaisedBelowMargin == GuardRaisesBelow(MinRequiredRadius)

\* The half circle from (5, 0) to (-5, 0) of declared radius 5 has been
\* written with R=5.001.
C24_Witness ==
    /\ Done
    /\ \E a \in StoredArcs :
          /\ contours[a[1]].elements[a[2]].r = 5 * MM
          /\ Chord(contours[a[1]], a[2]) = 10 * MM
          /\ ~AwayFrom180(contours[a[1]], a[2])
          /\ \E k \in ArcRecords(contours[a[1]], a[2]) : Mpr[k].R = 5 * MM + TOL

(***************************************************************************)
(* The order of the output                                                 *)
(***************************************************************************)
RECURSIVE SectionStart(_)
\* The place in the output of the ]id record of contour c: after the
\* header and the sections of the contours before it, each of one ]id
\* record, one start point and one record per element.
SectionStart(c) ==
    IF c = 1 THEN 2
    ELSE SectionStart(c - 1) + 2 + Len(contours[c - 1].elements)

\* The place of the variables block.
VariablesAt == SectionStart(Len(contours) + 1)

\* The section of contour c is at its place: ]id, the start point $E0,
\* then $E1..$En, one per element and of its kind.
SectionInPlace(c) ==
    /\ Mpr[SectionStart(c)].kind = "]"
    /\ Mpr[SectionStart(c)].id = contours[c].id
    /\ Mpr[SectionStart(c) + 1].kind = "KP"
    /\ Mpr[SectionStart(c) + 1].n = 0
    /\ \A n \in 1..Len(contours[c].elements) :
          /\ Mpr[SectionStart(c) + 1 + n].n = n
          /\ Mpr[SectionStart(c) + 1 + n].contour = contours[c].id
          /\ Mpr[SectionStart(c) + 1 + n].kind
                \in (IF contours[c].elements[n].type = "KL" THEN {"KL"}
                     ELSE {"KA", "$E"})

\* The record of operation k is at its place, counted from the end: the
\* operations are the last records before the terminator.
OperationInPlace(k) ==
    LET at == Len(Mpr) - 1 - Len(operations) + k
    IN  /\ Mpr[at].kind = operations[k].type
        /\ Mpr[at].TNO = operations[k].tool
        /\ operations[k].type = "BohrVert" =>
              Mpr[at].TI = fmt(operations[k].depth, MM, PRECISION)
        /\ operations[k].type # "BohrVert" =>
              Mpr[at].EA = operations[k].contour

\* C25: the output is the header, then one section per contour in the
\* order of the list (the start point $E0, then $E1..$En), then the
\* variables block and the workpiece record, then one record per
\* operation in the order of the list, then the terminator as the last
\* line; every contour and every operation is written once and nothing
\* else but the comment record.
C25_OutputOrder ==
    Done =>
        /\ Len(Mpr) \in {VariablesAt + 2 + Len(operations),
                         VariablesAt + 3 + Len(operations)}
        /\ Mpr[1].kind = "H"
        /\ \A c \in 1..Len(contours) : SectionInPlace(c)
        /\ Mpr[VariablesAt].kind = "001"
        /\ Mpr[VariablesAt + 1].kind = "WerkStck"
        /\ Len(Mpr) = VariablesAt + 3 + Len(operations)
              => Mpr[VariablesAt + 2].kind = "Kommentar"
        /\ \A k \in 1..Len(operations) : OperationInPlace(k)
        /\ Mpr[Len(Mpr)].kind = "!"

\* A call has finished with two contours, the first of two elements at
\* least, and two operations.
C25_Witness ==
    /\ Done
    /\ Len(contours) = 2
    /\ Len(contours[1].elements) >= 2
    /\ Len(operations) = 2
    /\ Mpr[SectionStart(2)].kind = "]"
    /\ Mpr[Len(Mpr) - 1].kind \in OperationKinds

(***************************************************************************)
(* Contours and milling operations                                         *)
(***************************************************************************)
\* The places in ops of the milling operations that reference contour id.
MillingOf(ops, id) ==
    {k \in 1..Len(ops) : ops[k].type # "BohrVert" /\ ops[k].contour = id}

\* The places in cs of the contours numbered id.
ContoursOf(cs, id) == {c \in 1..Len(cs) : cs[c].id = id}

\* Every milling operation of ops references one contour of cs, and every
\* contour of cs is referenced by one milling operation of ops.
OneToOne(cs, ops) ==
    /\ \A k \in 1..Len(ops) :
          ops[k].type # "BohrVert" => Cardinality(ContoursOf(cs, ops[k].contour)) = 1
    /\ \A c \in 1..Len(cs) : Cardinality(MillingOf(ops, cs[c].id)) = 1

\* The object obj yields no element.
YieldsNothing(obj) ==
    ~obj.hasPath \/ obj.Commands = <<>>
    \/ extract_contour_from_path(obj.Commands)[1] = <<>>

\* What the pass of the loop over obj has done to contours and operations.
ProcessedAs(obj) ==
    IF obj.hasPath /\ obj.Commands # <<>> /\ get_operation_type(obj) = "drilling"
    THEN /\ contours' = contours
         /\ Len(operations') >= Len(operations)
         /\ \A k \in 1..Len(operations') :
               k > Len(operations) => operations'[k].type = "BohrVert"
    ELSE IF YieldsNothing(obj)
    THEN contours' = contours /\ operations' = operations
    ELSE /\ Len(contours') = Len(contours) + 1
         /\ Len(operations') = Len(operations) + 1
         /\ operations'[Len(operations')].type # "BohrVert"
         /\ operations'[Len(operations')].contour = contours'[Len(contours')].id

\* C26: after every step milling operations and contours are in
\* one-to-one correspondence through the contour id; a pass over a profile
\* or pocket object that yields no element adds neither a contour nor an
\* operation, a pass over one that yields elements adds one of each, and
\* a pass over a drilling object adds no contour.
C26_ContourPerMilling ==
    [][/\ OneToOne(contours', operations')
       /\ pc = "run" /\ Len(objectslist') = Len(objectslist) + 1
             => ProcessedAs(objectslist'[Len(objectslist')])]_vars

\* A call has processed an object with commands that yields no element
\* and a drilling object: there are drilling operations, no contour and
\* no milling operation.
C26_Witness ==
    /\ pc = "run"
    /\ Len(objectslist) = 2
    /\ objectslist[1].Commands # <<>> /\ YieldsNothing(objectslist[1])
    /\ get_operation_type(objectslist[1]) # "drilling"
    /\ get_operation_type(objectslist[2]) = "drilling"
    /\ contours = <<>>
    /\ operations # <<>>
    /\ \A k \in 1..Len(operations) : operations[k].type = "BohrVert"

(***************************************************************************)
(* Arcs stay in the plane                                                  *)
(***************************************************************************)
\* The places in norm.elements of the elements the step has appended.
AppendedPlaces == (Len(norm.elements) + 1)..Len(norm'.elements)

\* The step walks an arc command whose Z is more than 0.001 away from the
\* cursor.
WalksRisingArc ==
    /\ Len(path_commands') = Len(path_commands) + 1
    /\ path_commands'[Len(path_commands')].Name \in ArcNames
    /\ Abs(Get(path_commands'[Len(path_commands')].Parameters, "Z", norm.current_z)
           - norm.current_z) > TOL

\* C27: the z of every Arc element a step appends is within 0.001 of the
\* z of the cursor before the step, and an arc command whose Z is more
\* than 0.001 away from the cursor appends Line elements only.
C27_NoOutOfPlaneArc ==
    [][\A n \in AppendedPlaces :
          /\ norm'.elements[n].type = "KA"
                => Abs(norm'.elements[n].z - norm.current_z) <= TOL
          /\ WalksRisingArc => norm'.elements[n].type = "KL"]_vars

\* An arc command that changes Z by 1 mm has been walked as the only
\* command, and the elements are Lines, the last one at the commanded Z.
C27_Witness ==
    /\ Len(path_commands) = 1
    /\ path_commands[1].Name \in ArcNames
    /\ Abs(ResolvedAt(1)[3] - cursor_log[1][3]) = MM
    /\ Len(norm.elements) >= 8
    /\ \A n \in 1..Len(norm.elements) : norm.elements[n].type = "KL"
    /\ norm.elements[Len(norm.elements)].z = ResolvedAt(1)[3]

(***************************************************************************)
(* The previous point of an arc                                            *)
(***************************************************************************)
\* The end point of the element stored before place n of the elements of
\* st, the start position when n is 1: the point the serializer and the
\* minimum-point locator add (i, j) to.
PreviousEnd(st, n) ==
    IF n = 1 THEN StartPos(st)
    ELSE <<st.elements[n - 1].x, st.elements[n - 1].y, st.elements[n - 1].z>>

\* C28: for every Arc element a step stores, the center rebuilt from the
\* end point of the element stored before it (the start position when it
\* is the first) plus (i, j) is the commanded center, the cursor before
\* the step plus (i, j).
C28_PreviousPointIsCursor ==
    [][\A n \in AppendedPlaces :
          norm'.elements[n].type = "KA"
             => /\ PreviousEnd(norm', n)[1] + norm'.elements[n].i
                      = norm.current_x + norm'.elements[n].i
                /\ PreviousEnd(norm', n)[2] + norm'.elements[n].j
                      = norm.current_y + norm'.elements[n].j]_vars

\* After a Line to (10, 0, 0) and a drilling cycle at (5, 5), which
\* stores nothing, an Arc has been stored: its (i, j) was taken from the
\* cursor (5, 5) and the element before it ends at (10, 0).
C28_Witness ==
    /\ Len(path_commands) = 3
    /\ path_commands[2].Name = "G81"
    /\ cursor_log[3] = <<5 * MM, 5 * MM, -3 * MM>>
    /\ Len(norm.elements) = 2
    /\ norm.elements[2].type = "KA"
    /\ PreviousEnd(norm, 2) = <<10 * MM, 0, 0>>

(***************************************************************************)
(* The sweep of an arc                                                     *)
(***************************************************************************)
\* The commands of the object are a move to a point and an arc command
\* that ends at the same X and Y, more than 0.001 away in Z.
FullCircleDown(cmds) ==
    /\ Len(cmds) = 2
    /\ cmds[1].Name \in RapidNames
    /\ cmds[2].Name \in ArcNames
    /\ Get(cmds[2].Parameters, "X", 0) = Get(cmds[1].Parameters, "X", 0)
    /\ Get(cmds[2].Parameters, "Y", 0) = Get(cmds[1].Parameters, "Y", 0)
    /\ Abs(Get(cmds[2].Parameters, "Z", 0) - Get(cmds[1].Parameters, "Z", 0)) > TOL

\* The elements from the second on are eight Lines at one X and Y.
EightAtOnePoint(elems) ==
    /\ Len(elems) = 9
    /\ \A n \in 2..9 :
          /\ elems[n].type = "KL"
          /\ elems[n].x = elems[2].x
          /\ elems[n].y = elems[2].y

\* C29: the written angles of every arc are less than a full turn apart;
\* an arc whose end point is its start point has start angle = end angle
\* and the code of a small arc, 0 for CW and 1 for CCW; and such an arc
\* with a Z change is stored as eight Lines at one X and Y.
C29_SweepBelowFullTurn ==
    Done =>
        /\ \A a \in StoredArcs :
              \A k \in ArcRecords(contours[a[1]], a[2]) :
                  /\ Abs(Mpr[k].WO - Mpr[k].WI) < fmt(TWO_PI, RAD, PRECISION)
                  /\ ArcTo(contours[a[1]], a[2]) = ArcFrom(contours[a[1]], a[2])
                        => /\ Mpr[k].WO = Mpr[k].WI
                           /\ Mpr[k].DS
                                 = (IF contours[a[1]].elements[a[2]].direction = "CW"
                                    THEN 0 ELSE 1)
        /\ FullCircleDown(objectslist[1].Commands)
              => Len(contours) = 1 /\ EightAtOnePoint(contours[1].elements)

\* The full circle G3 from (5, 0) back to (5, 0) around the origin has
\* been written with DS=1 and equal angles.
C29_Witness ==
    /\ Done
    /\ \E a \in StoredArcs :
          /\ ArcFrom(contours[a[1]], a[2]) = <<5 * MM, 0>>
          /\ ArcTo(contours[a[1]], a[2]) = <<5 * MM, 0>>
          /\ contours[a[1]].elements[a[2]].direction = "CCW"
          /\ \E k \in ArcRecords(contours[a[1]], a[2]) :
                Mpr[k].DS = 1 /\ Mpr[k].WO = Mpr[k].WI

(***************************************************************************)
(* The minimum point as the origin of the output                           *)
(***************************************************************************)
\* No coordinate of record b the offset applies to is negative: X, Y and
\* Z of a start point, a line or an arc, the center I, J of an arc, and
\* XA, YA of a drilling.
NothingNegative(b) ==
    /\ b.kind \in {"KP", "KL", "KA"} => b.X >= 0 /\ b.Y >= 0 /\ b.Z >= 0
    /\ b.kind = "KA" => b.I >= 0 /\ b.J >= 0
    /\ b.kind = "BohrVert" => b.XA >= 0 /\ b.YA >= 0

\* C30: in a call with a coordinate system and without a bounding box of
\* the Job, where the offset is taken from the contours, no start point,
\* line end, arc end or arc center is written with a negative X or Y, no
\* contour Z is negative and no drilling has a negative XA or YA.
C30_MinimumIsOrigin ==
    Done /\ COORDINATE_SYSTEM # "" /\ BoundBoxMinimum(job) = <<>>
        => \A k \in 1..Len(Mpr) : NothingNegative(Mpr[k])

\* A call with a coordinate system and no bounding box has written a
\* contour that starts at the origin and a drilling at X = -2: the
\* offset is +2 in X, the drilling is written with XA = 0 and the contour
\* starts at X = 2.
C30_Witness ==
    /\ Done
    /\ COORDINATE_SYSTEM # ""
    /\ BoundBoxMinimum(job) = <<>>
    /\ contours # <<>>
    /\ Offset[1] = 2 * MM
    /\ \E k \in 1..Len(Mpr) : Mpr[k].kind = "BohrVert" /\ Mpr[k].XA = 0
    /\ \E k \in 1..Len(Mpr) : Mpr[k].kind = "KP" /\ Mpr[k].X = 2 * MM

=============================================================================
